---------------------------- MODULE Spec2Model ----------------------------
(***************************************************************************)
(* A model of the liner line editor (MovingtoMars/liner): the edit Buffer  *)
(* with its grouped undo/redo journal, the History store, the Editor and   *)
(* the keymaps layered over the shared dispatcher.                         *)
(*                                                                         *)
(* Objects are records and every method is an operator from the object(s)  *)
(* before the call to the object(s) after it, named after the method it    *)
(* models.  Positions are 0-based as in the source; sequences are 1-based  *)
(* as in TLA+, so data[i+1] is the source's data[i].                       *)
(***************************************************************************)
EXTENDS Integers, Sequences, FiniteSets, TLC

(***************************************************************************)
(* Bounds of the model.                                                    *)
(***************************************************************************)
\* buffer specification: longest text the Buffer may hold
MaxLen == 2
\* buffer specification: most actions on the Buffer's two journals together
MaxOps == 2
\* group specification: longest text the Buffer may hold
MaxGroupLen == 1
\* group specification: most mutations (insert / remove / truncate) and most
\* group markers on the Buffer's two journals together
MaxGroupMut == 2
MaxGroupMark == 4
\* history specification: most entries in the History, most messages in the
\* channel to the worker, most lines in the history file
MaxHistLen == 2
MaxQueue == 1
MaxFileLines == 1

MaxText == 2

MaxKeys == 4

MaxSessions == 2
\* Vi specification: longest text in a buffer of the Editor and most keys
\* handled
MaxViText == 4
MaxViKeys == 4
\* count specification: most keys typed after the keys of the prefix
MaxCountKeys == 3
\* the longest buffer that is painted, the widest prompt, the lowest line the
\* cursor was left on and the widest terminal
MaxDisplayText == 3
MaxPrompt == 2
MaxTermLine == 3
MaxTermWidth == 4
\* words specification: the longest buffer divided into words
MaxWordsText == 5
\* the calls of push and of commit_history of the worker specification
MaxPushes == 3
MaxCommits == 2
\* the lines of the file, and the largest cap, of the write_to_disk
\* specification
MaxDiskLines == 3
MaxCap == 3
\* the longest text of an argument of a function that is called on its own
MaxArg == 3

(***************************************************************************)
(* Generic helpers on sequences.                                           *)
(***************************************************************************)
Last(s) == s[Len(s)]

Front(s) == SubSeq(s, 1, Len(s) - 1)

Min(a, b) == IF a < b THEN a ELSE b

Max(a, b) == IF a > b THEN a ELSE b

\* every sequence over S of length at most n
SeqsUpTo(S, n) == UNION {[1..k -> S] : k \in 0..n}

(***************************************************************************)
(* buffer.rs: Action                                                       *)
(***************************************************************************)
Insert(start, text) == [type |-> "Insert", start |-> start, text |-> text]

Remove(start, text) == [type |-> "Remove", start |-> start, text |-> text]

StartGroup == [type |-> "StartGroup", start |-> 0, text |-> <<>>]

EndGroup == [type |-> "EndGroup", start |-> 0, text |-> <<>>]

IsMarker(act) == act.type \in {"StartGroup", "EndGroup"}

(***************************************************************************)
(* buffer.rs: Buffer.  data: Vec<char>, actions: the undo stack,           *)
(* undone_actions: the redo stack; the top of a stack is its last element. *)
(***************************************************************************)
Buffer_from(text) == [data |-> text, actions |-> <<>>, undone_actions |-> <<>>]

Buffer_new == Buffer_from(<<>>)

\* Vec::drain(start..end) on data: the text left (the drained text is
\* SubSeq(data, start + 1, end))
remove_raw(data, start, end) ==
    SubSeq(data, 1, start) \o SubSeq(data, end + 1, Len(data))

\* Vec::insert(start + i, c) for each c of text, in order
insert_raw(data, start, text) ==
    SubSeq(data, 1, start) \o text \o SubSeq(data, start + 1, Len(data))

Action_do_on(act, data) ==
    CASE act.type = "Insert" -> insert_raw(data, act.start, act.text)
      [] act.type = "Remove" -> remove_raw(data, act.start, act.start + Len(act.text))
      [] OTHER -> data

\* Action::undo with the inverse of a Remove put back at the front of the text
Mut_Action_undo(act, data) ==
    CASE act.type = "Insert" -> remove_raw(data, act.start, act.start + Len(act.text))
      [] act.type = "Remove" -> insert_raw(data, 0, act.text)
      [] OTHER -> data

Action_undo(act, data) ==
    CASE act.type = "Insert" -> remove_raw(data, act.start, act.start + Len(act.text))
      [] act.type = "Remove" -> insert_raw(data, act.start, act.text)
      [] OTHER -> data

\* push_action without the clear of the redo stack
Mut_push_action(b, act) == [b EXCEPT !.actions = Append(b.actions, act)]

push_action(b, act) ==
    [b EXCEPT !.actions = Append(b.actions, act), !.undone_actions = <<>>]

Buffer_insert(b, start, text) ==
    LET act == Insert(start, text)
    IN  push_action([b EXCEPT !.data = Action_do_on(act, b.data)], act)

Buffer_remove(b, start, end) ==
    LET act == Remove(start, SubSeq(b.data, start + 1, end))
    IN  push_action([b EXCEPT !.data = remove_raw(b.data, start, end)], act)

Buffer_truncate(b, num) == Buffer_remove(b, num, Len(b.data))

start_undo_group(b) == [b EXCEPT !.actions = Append(b.actions, StartGroup)]

end_undo_group(b) == [b EXCEPT !.actions = Append(b.actions, EndGroup)]

\* the while-let loop of Buffer::undo, entered with the two counters
RECURSIVE undo_loop(_, _, _)
undo_loop(b, group_nest, group_count) ==
    IF b.actions = <<>> THEN b
    ELSE LET act == Last(b.actions)
             b1 == [data |-> Action_undo(act, b.data),
                    actions |-> Front(b.actions),
                    undone_actions |-> Append(b.undone_actions, act)]
             nest1 == CASE act.type = "EndGroup" -> group_nest + 1
                        [] act.type = "StartGroup" -> group_nest - 1
                        [] OTHER -> group_nest
             count1 == CASE act.type = "EndGroup" -> 0
                         [] act.type = "StartGroup" -> group_count
                         [] OTHER -> group_count + 1
         IN  IF nest1 = 0 /\ count1 > 0 THEN b1 ELSE undo_loop(b1, nest1, count1)

\* Buffer::undo: the buffer after the call and the value returned
Buffer_undo(b) == [buf |-> undo_loop(b, 0, 0), did |-> b.actions # <<>>]

RECURSIVE redo_loop(_, _, _)
redo_loop(b, group_nest, group_count) ==
    IF b.undone_actions = <<>> THEN b
    ELSE LET act == Last(b.undone_actions)
             b1 == [data |-> Action_do_on(act, b.data),
                    actions |-> Append(b.actions, act),
                    undone_actions |-> Front(b.undone_actions)]
             nest1 == CASE act.type = "StartGroup" -> group_nest + 1
                        [] act.type = "EndGroup" -> group_nest - 1
                        [] OTHER -> group_nest
             count1 == CASE act.type = "StartGroup" -> 0
                         [] act.type = "EndGroup" -> group_count
                         [] OTHER -> group_count + 1
         IN  IF nest1 = 0 /\ count1 > 0 THEN b1 ELSE redo_loop(b1, nest1, count1)

Buffer_redo(b) == [buf |-> redo_loop(b, 0, 0), did |-> b.undone_actions # <<>>]

\* `while self.undo() {}`: undo until a call finds the undo stack empty
RECURSIVE revert_loop(_)
revert_loop(b) ==
    LET r == Buffer_undo(b) IN IF r.did THEN revert_loop(r.buf) ELSE r.buf

Buffer_revert(b) ==
    IF Len(b.actions) = 0 THEN [buf |-> b, did |-> FALSE]
    ELSE [buf |-> revert_loop(b), did |-> TRUE]

num_chars(b) == Len(b.data)

is_empty(b) == b.data = <<>>

(***************************************************************************)
(* history.rs: History.  buffers: the in-memory deque, oldest entry first; *)
(* channel: the (Buffer, path) messages sent and not yet received by the   *)
(* worker thread; receiver: the worker thread (which owns the receiving    *)
(* end) has not exited; a file is the sequence of its bytes.               *)
(***************************************************************************)
DEFAULT_MAX_SIZE == 1000

\* the read buffer of write_to_disk: [0; 4096]
ChunkSize == 4096

None == <<>>

Some(x) == <<x>>

NL == "\n"

History_new ==
    [buffers |-> <<>>, file_name |-> None, max_size |-> DEFAULT_MAX_SIZE,
     max_file_size |-> DEFAULT_MAX_SIZE, bg_handle |-> TRUE, bg_stop |-> FALSE,
     channel |-> <<>>, receiver |-> TRUE, append_duplicate_entries |-> FALSE]

History_len(h) == Len(h.buffers)

\* the texts of the entries
Texts(buffers) == [i \in 1..Len(buffers) |-> buffers[i].data]

\* Sender::send: the message is queued while the receiving end exists, and
\* is dropped with an (ignored) error once the worker thread has exited
Sender_send(h, item, name) ==
    IF h.receiver
    THEN [h EXCEPT !.channel = Append(h.channel, [item |-> item, path |-> name])]
    ELSE h

\* the eviction loop popping at the back
Mut_evict(buffers, max_size) == SubSeq(buffers, 1, Min(Len(buffers), max_size))

\* `while self.buffers.len() > self.max_size { pop_front }`
RECURSIVE evict(_, _)
evict(buffers, max_size) ==
    IF Len(buffers) > max_size THEN evict(Tail(buffers), max_size) ELSE buffers

\* push without the early return on a duplicate of the back entry
Mut_History_push(h, new_item) ==
    LET h1 == IF h.file_name # None THEN Sender_send(h, new_item, h.file_name[1]) ELSE h
    IN  [h1 EXCEPT !.buffers = evict(Append(h.buffers, new_item), h.max_size)]

History_push(h, new_item) ==
    LET h1 == IF h.file_name # None THEN Sender_send(h, new_item, h.file_name[1]) ELSE h
    IN  IF /\ ~h.append_duplicate_entries
           /\ h.buffers # <<>>
           /\ Last(h.buffers).data = new_item.data
        THEN h1
        ELSE [h1 EXCEPT !.buffers = evict(Append(h.buffers, new_item), h.max_size)]

\* zip(self, other).take_while(equal).count(): the length of the common prefix
RECURSIVE match_let(_, _)
match_let(self, other) ==
    IF self # <<>> /\ other # <<>> /\ Head(self) = Head(other)
    THEN 1 + match_let(Tail(self), Tail(other))
    ELSE 0

\* starts_with without the test that the lengths differ
Mut_starts_with(self, other) ==
    IF Len(other.data) # 0
    THEN match_let(self.data, other.data) = Len(other.data)
    ELSE FALSE

starts_with(self, other) ==
    IF Len(other.data) # 0 /\ Len(self.data) # Len(other.data)
    THEN match_let(self.data, other.data) = Len(other.data)
    ELSE FALSE

\* get_newest_match scanning from index 0 upwards
RECURSIVE Mut_newest_match_loop(_, _, _, _)
Mut_newest_match_loop(h, iter, pos, new_buff) ==
    IF iter >= pos THEN None
    ELSE IF iter < Len(h.buffers) /\ starts_with(h.buffers[iter + 1], new_buff)
         THEN Some(iter)
         ELSE Mut_newest_match_loop(h, iter + 1, pos, new_buff)

Mut_get_newest_match(h, curr_position, new_buff) ==
    LET pos == IF curr_position = None THEN Len(h.buffers) ELSE curr_position[1]
    IN  Mut_newest_match_loop(h, 0, pos, new_buff)

\* `for iter in (0..pos).rev()`, from iter downwards; buffers.get(iter) is
\* None for an index past the end
RECURSIVE newest_match_loop(_, _, _)
newest_match_loop(h, iter, new_buff) ==
    IF iter < 0 THEN None
    ELSE IF iter < Len(h.buffers) /\ starts_with(h.buffers[iter + 1], new_buff)
         THEN Some(iter)
         ELSE newest_match_loop(h, iter - 1, new_buff)

\* the value returned is Some(i) for the reference to buffers[i]
get_newest_match(h, curr_position, new_buff) ==
    LET pos == IF curr_position = None THEN Len(h.buffers) ELSE curr_position[1]
    IN  newest_match_loop(h, pos - 1, new_buff)

set_file_name(h, name) == [h EXCEPT !.file_name = name]

set_max_size(h, size) == [h EXCEPT !.max_size = size]

set_max_file_size(h, size) == [h EXCEPT !.max_file_size = size]

\* bytecount::count(bytes, b'\n')
bytecount_count(bytes) == Cardinality({i \in 1..Len(bytes) : bytes[i] = NL})

\* BufReader::lines: the text before each newline, and the text after the
\* last newline when there is any
RECURSIVE lines(_)
lines(file) ==
    IF file = <<>> THEN <<>>
    ELSE LET ends == {i \in 1..Len(file) : file[i] = NL}
         IN  IF ends = {} THEN <<file>>
             ELSE LET i == CHOOSE e \in ends : \A o \in ends : e <= o
                  IN  <<SubSeq(file, 1, i - 1)>> \o lines(SubSeq(file, i + 1, Len(file)))

RECURSIVE push_back_all(_, _)
push_back_all(buffers, ls) ==
    IF ls = <<>> THEN buffers
    ELSE push_back_all(Append(buffers, Buffer_from(Head(ls))), Tail(ls))

\* load_history with the file (named file_name) holding the bytes `file`;
\* without a file name it returns an error and changes nothing
load_history(h, file) ==
    IF h.file_name = None THEN h
    ELSE [h EXCEPT !.buffers = push_back_all(h.buffers, lines(file))]

\* the byte loop of write_to_disk over one chunk: total_read counts every
\* byte and eread every newline passed, and the loop stops with move_dist =
\* total_read at the first newline it meets while eread = target, which is
\* the newline of the chunk with target - eread newlines of the chunk before
\* it; without such a newline move_dist stays 0
scan_chunk(chunk, eread, total_read, target) ==
    LET nls == {i \in 1..Len(chunk) : chunk[i] = NL}
        hit == {i \in nls : Cardinality({j \in nls : j < i}) = target - eread}
    IN  IF hit = {} THEN 0 ELSE total_read + (CHOOSE i \in hit : TRUE)

\* the second chunk loop of write_to_disk, at file offset pos: move_dist
RECURSIVE find_move_dist(_, _, _, _, _)
find_move_dist(file, pos, eread, total_read, target) ==
    LET read == Min(ChunkSize, Len(file) - pos)
        chunk == SubSeq(file, pos + 1, pos + read)
        cmds_read == bytecount_count(chunk)
    IN  IF read = 0 THEN 0
        ELSE IF eread + cmds_read >= target
             THEN scan_chunk(chunk, eread, total_read, target)
             ELSE find_move_dist(file, pos + read, eread + cmds_read,
                                 total_read + read, target)

\* the bytes from `distance` on are moved to the front, the file is cut
move_file_contents_backward(file, distance) ==
    SubSeq(file, distance + 1, Len(file))

\* write_to_disk: the file after the write (a missing file is created empty)
write_to_disk(max_file_size, new_item, file) ==
    LET num_stored == bytecount_count(file)
        file1 == IF num_stored >= max_file_size
                 THEN move_file_contents_backward(file,
                          find_move_dist(file, 0, 0, 0, num_stored - max_file_size))
                 ELSE file
    IN  file1 \o new_item.data \o <<NL>>

\* the worker's drain loop: every queued message is written, in order
RECURSIVE drain(_, _, _)
drain(channel, max_file_size, file) ==
    IF channel = <<>> THEN file
    ELSE drain(Tail(channel), max_file_size,
               write_to_disk(max_file_size, Head(channel).item, file))

\* Receiver::try_recv: the oldest queued message, if any
try_recv(channel) == IF channel = <<>> THEN None ELSE Some(Head(channel))

\* the worker after `let _ = write_to_disk(..)` on the message it received
received(h, file, pc) ==
    [pc |-> pc, h |-> [h EXCEPT !.channel = Tail(@)],
     file |-> write_to_disk(h.max_file_size, Head(h.channel).item, file),
     got |-> Some(Head(h.channel).item.data)]

\* the worker thread that leaves as soon as it reads the stop flag set
Mut_worker_step(pc, h, file) ==
    CASE pc = "while" ->
            [pc |-> IF h.bg_stop THEN "exited" ELSE "try_recv",
             h |-> IF h.bg_stop THEN [h EXCEPT !.receiver = FALSE] ELSE h,
             file |-> file, got |-> None]
      [] pc = "try_recv" ->
            IF try_recv(h.channel) # None THEN received(h, file, "sleep")
            ELSE [pc |-> "sleep", h |-> h, file |-> file, got |-> None]
      [] pc = "sleep" -> [pc |-> "while", h |-> h, file |-> file, got |-> None]
      [] OTHER -> [pc |-> pc, h |-> h, file |-> file, got |-> None]

\* one step of the closure History::new spawns.  pc is where the thread is:
\* "while" at the test of the stop flag, "try_recv" in the polling loop,
\* "sleep", "drain" at the try_recv of the second loop, "exited" once the
\* closure has returned, which drops the receiving end of the channel.  got
\* is the entry handed to write_to_disk in this step, if any.
worker_step(pc, h, file) ==
    CASE pc = "while" ->
            [pc |-> IF h.bg_stop THEN "drain" ELSE "try_recv", h |-> h,
             file |-> file, got |-> None]
      [] pc = "try_recv" ->
            IF try_recv(h.channel) # None THEN received(h, file, "sleep")
            ELSE [pc |-> "sleep", h |-> h, file |-> file, got |-> None]
      [] pc = "sleep" -> [pc |-> "while", h |-> h, file |-> file, got |-> None]
      [] pc = "drain" ->
            IF try_recv(h.channel) # None THEN received(h, file, "drain")
            ELSE [pc |-> "exited", h |-> [h EXCEPT !.receiver = FALSE],
                  file |-> file, got |-> None]
      [] OTHER -> [pc |-> pc, h |-> h, file |-> file, got |-> None]

(***************************************************************************)
(* Characters and keys.  A char is a one-character string, a termion Key   *)
(* a record of its variant and, for Char / Ctrl / Alt, its char.           *)
(***************************************************************************)
LowerSeq ==
    <<"a", "b", "c", "d", "e", "f", "g", "h", "i", "j", "k", "l", "m",
      "n", "o", "p", "q", "r", "s", "t", "u", "v", "w", "x", "y", "z">>

UpperSeq ==
    <<"A", "B", "C", "D", "E", "F", "G", "H", "I", "J", "K", "L", "M",
      "N", "O", "P", "Q", "R", "S", "T", "U", "V", "W", "X", "Y", "Z">>

DigitSeq == <<"0", "1", "2", "3", "4", "5", "6", "7", "8", "9">>

Range(s) == {s[i] : i \in 1..Len(s)}

IndexOf(s, x) == CHOOSE i \in 1..Len(s) : s[i] = x

is_whitespace(c) == c \in {" ", "\n", "\t"}

is_lowercase(c) == c \in Range(LowerSeq)

is_uppercase(c) == c \in Range(UpperSeq)

is_alphanumeric(c) == c \in Range(LowerSeq) \cup Range(UpperSeq) \cup Range(DigitSeq)

to_uppercase(c) == IF is_lowercase(c) THEN UpperSeq[IndexOf(LowerSeq, c)] ELSE c

to_lowercase(c) == IF is_uppercase(c) THEN LowerSeq[IndexOf(UpperSeq, c)] ELSE c

to_digit(c) == IndexOf(DigitSeq, c) - 1

\* the chars of the model in the order of their code points
CharOrder ==
    <<"\t", "\n", " ", "$", ",", ".">> \o DigitSeq \o <<";">> \o UpperSeq
    \o <<"\\", "_">> \o LowerSeq \o <<"~">>

\* the order of str (and of Vec<char>): lexicographic by code point
RECURSIVE StrLess(_, _)
StrLess(s, t) ==
    IF t = <<>> THEN FALSE
    ELSE IF s = <<>> THEN TRUE
    ELSE IF Head(s) = Head(t) THEN StrLess(Tail(s), Tail(t))
    ELSE IndexOf(CharOrder, Head(s)) < IndexOf(CharOrder, Head(t))

\* str::starts_with
str_starts_with(s, prefix) ==
    Len(prefix) <= Len(s) /\ SubSeq(s, 1, Len(prefix)) = prefix

Key(t, c) == [t |-> t, c |-> c]

KChar(c) == Key("Char", c)

KCtrl(c) == Key("Ctrl", c)

KAlt(c) == Key("Alt", c)

KLeft == Key("Left", "")

KRight == Key("Right", "")

KUp == Key("Up", "")

KDown == Key("Down", "")

KHome == Key("Home", "")

KEnd == Key("End", "")

KBackspace == Key("Backspace", "")

KDelete == Key("Delete", "")

KEsc == Key("Esc", "")

KNull == Key("Null", "")

(***************************************************************************)
(* context.rs: get_buffer_words; editor.rs: CursorPosition.  A word is a   *)
(* pair <<start, end>> of 0-based offsets.                                 *)
(***************************************************************************)
\* the for loop of get_buffer_words from the char at offset i
RECURSIVE words_loop(_, _, _, _, _)
words_loop(data, i, res, word_start, just_had_backslash) ==
    IF i >= Len(data)
    THEN IF word_start # None THEN Append(res, <<word_start[1], Len(data)>>) ELSE res
    ELSE LET c == data[i + 1]
         IN  IF c = "\\" THEN words_loop(data, i + 1, res, word_start, TRUE)
             ELSE IF word_start # None
                  THEN IF c = " " /\ ~just_had_backslash
                       THEN words_loop(data, i + 1, Append(res, <<word_start[1], i>>),
                                       None, FALSE)
                       ELSE words_loop(data, i + 1, res, word_start, FALSE)
                  ELSE IF c # " "
                       THEN words_loop(data, i + 1, res, Some(i), FALSE)
                       ELSE words_loop(data, i + 1, res, None, FALSE)

get_buffer_words(b) == words_loop(b.data, 0, <<>>, None, FALSE)

InWord(i) == [kind |-> "InWord", i |-> i, left |-> None, right |-> None]

OnWordLeftEdge(i) == [kind |-> "OnWordLeftEdge", i |-> i, left |-> None, right |-> None]

OnWordRightEdge(i) == [kind |-> "OnWordRightEdge", i |-> i, left |-> None, right |-> None]

InSpace(left, right) == [kind |-> "InSpace", i |-> 0, left |-> left, right |-> right]

\* the for loop of CursorPosition::get from the word with index i
RECURSIVE position_loop(_, _, _)
position_loop(cursor, words, i) ==
    IF i >= Len(words) THEN InSpace(Some(Len(words) - 1), None)
    ELSE LET start == words[i + 1][1]
             end == words[i + 1][2]
         IN  IF start = cursor THEN OnWordLeftEdge(i)
             ELSE IF end = cursor THEN OnWordRightEdge(i)
             ELSE IF start < cursor /\ cursor < end THEN InWord(i)
             ELSE IF cursor < start THEN InSpace(Some(i - 1), Some(i))
             ELSE position_loop(cursor, words, i + 1)

CursorPosition_get(cursor, words) ==
    IF Len(words) = 0 THEN InSpace(None, None)
    ELSE IF cursor = words[1][1] THEN OnWordLeftEdge(0)
    ELSE IF cursor < words[1][1] THEN InSpace(None, Some(0))
    ELSE position_loop(cursor, words, 0)

(***************************************************************************)
(* complete.rs and util.rs                                                 *)
(***************************************************************************)
\* BasicCompleter::completions: the prefixes that start with `start`
BasicCompleter_completions(prefixes, start) ==
    SelectSeq(prefixes, LAMBDA s : str_starts_with(s, start))

\* Vec::sort then Vec::dedup: the distinct elements in increasing order
RECURSIVE sorted(_)
sorted(S) ==
    IF S = {} THEN <<>>
    ELSE LET m == CHOOSE x \in S : \A y \in S : x = y \/ StrLess(x, y)
         IN  <<m>> \o sorted(S \ {m})

sort_dedup(list) == sorted(Range(list))

\* the first of the shortest words: min_by_key(len)
shortest_word(among) ==
    among[CHOOSE i \in 1..Len(among) :
             /\ \A j \in 1..Len(among) : Len(among[i]) <= Len(among[j])
             /\ \A j \in 1..(i - 1) : Len(among[j]) > Len(among[i])]

RECURSIVE common_prefix_loop(_, _, _)
common_prefix_loop(among, word, end) ==
    IF end <= 0 THEN None
    ELSE IF \A i \in 1..Len(among) : str_starts_with(among[i], SubSeq(word, 1, end))
         THEN Some(SubSeq(word, 1, end))
         ELSE common_prefix_loop(among, word, end - 1)

find_longest_common_prefix(among) ==
    IF Len(among) = 0 THEN None
    ELSE IF Len(among) = 1 THEN Some(among[1])
    ELSE IF \E i \in 1..Len(among) : Len(among[i]) = 0 THEN None
    ELSE common_prefix_loop(among, shortest_word(among), Len(shortest_word(among)))

(***************************************************************************)
(* editor.rs: Editor.  hist is context.history.buffers and completer the   *)
(* prefixes of context.completer (a BasicCompleter) during the session;    *)
(* panicked: an operation panicked (an offset out of range) and the        *)
(* session was lost.  The terminal (prompt, out, term_cursor_line) is not  *)
(* part of the record.                                                     *)
(***************************************************************************)
Editor_new_fields(hist, completer, buffer) ==
    [hist |-> hist, completer |-> completer, cursor |-> 0, new_buf |-> buffer,
     cur_history_loc |-> None, show_completions_hint |-> FALSE,
     show_autosuggestions |-> TRUE, no_eol |-> FALSE, panicked |-> FALSE]

\* cur_buf!
cur_buf(ed) ==
    IF ed.cur_history_loc = None THEN ed.new_buf
    ELSE ed.hist[ed.cur_history_loc[1] + 1]

\* cur_buf_mut!, assigned
with_cur_buf(ed, b) ==
    IF ed.cur_history_loc = None THEN [ed EXCEPT !.new_buf = b]
    ELSE [ed EXCEPT !.hist[ed.cur_history_loc[1] + 1] = b]

panic(ed) == [ed EXCEPT !.panicked = TRUE]

char_before(b, cursor) ==
    IF cursor = 0 THEN None
    ELSE IF cursor - 1 < Len(b.data) THEN Some(b.data[cursor]) ELSE None

char_after(b, cursor) ==
    IF cursor < Len(b.data) THEN Some(b.data[cursor + 1]) ELSE None

\* data[start..end]
range_chars(b, start, end) == SubSeq(b.data, start + 1, end)

last_arg(b) ==
    LET words == {w \in {<<i, j>> : i \in 0..Len(b.data), j \in 0..Len(b.data)} :
                     /\ w[1] < w[2]
                     /\ \A k \in (w[1] + 1)..w[2] : b.data[k] # " "
                     /\ (w[1] = 0 \/ b.data[w[1]] = " ")
                     /\ (w[2] = Len(b.data) \/ b.data[w[2] + 1] = " ")}
    IN  IF words = {} THEN None
        ELSE LET w == CHOOSE x \in words : \A y \in words : y[2] <= x[2]
             IN  Some(SubSeq(b.data, w[1] + 1, w[2]))

current_autosuggestion(ed) ==
    IF ed.show_autosuggestions
    THEN get_newest_match([buffers |-> ed.hist], ed.cur_history_loc, cur_buf(ed))
    ELSE None

is_currently_showing_autosuggestion(ed) == current_autosuggestion(ed) # None

\* _display: the clamp of the cursor (the painting is not modelled)
Editor_display(ed) ==
    IF ed.panicked THEN ed
    ELSE LET buf_num_chars == num_chars(cur_buf(ed))
             c1 == IF buf_num_chars < ed.cursor THEN buf_num_chars ELSE ed.cursor
             c2 == IF ed.no_eol /\ c1 >= 1 /\ c1 = buf_num_chars THEN c1 - 1 ELSE c1
         IN  [ed EXCEPT !.cursor = c2]

move_cursor_to_end_of_line(ed) ==
    IF ed.panicked THEN ed
    ELSE Editor_display([ed EXCEPT !.cursor = num_chars(cur_buf(ed))])

move_cursor_to_start_of_line(ed) ==
    IF ed.panicked THEN ed ELSE Editor_display([ed EXCEPT !.cursor = 0])

move_cursor_left(ed, count) ==
    IF ed.panicked THEN ed
    ELSE Editor_display([ed EXCEPT !.cursor = @ - Min(count, ed.cursor)])

\* num_chars - cursor underflows when the cursor is past the end
move_cursor_right(ed, count) ==
    IF ed.panicked THEN ed
    ELSE IF ed.cursor > num_chars(cur_buf(ed)) THEN panic(ed)
    ELSE Editor_display(
             [ed EXCEPT !.cursor = @ + Min(count, num_chars(cur_buf(ed)) - ed.cursor)])

move_cursor_to(ed, pos) ==
    IF ed.panicked THEN ed
    ELSE Editor_display([ed EXCEPT !.cursor = Min(pos, num_chars(cur_buf(ed)))])

cursor_is_at_end_of_line(ed) ==
    IF ed.no_eol THEN ed.cursor = num_chars(cur_buf(ed)) - 1
    ELSE ed.cursor = num_chars(cur_buf(ed))

\* Vec::insert panics on an offset past the end
insert_chars_after_cursor(ed, cs) ==
    IF ed.panicked THEN ed
    ELSE IF cs # <<>> /\ ed.cursor > num_chars(cur_buf(ed)) THEN panic(ed)
    ELSE Editor_display(
             [with_cur_buf(ed, Buffer_insert(cur_buf(ed), ed.cursor, cs))
                 EXCEPT !.cursor = ed.cursor + Len(cs)])

insert_after_cursor(ed, c) == insert_chars_after_cursor(ed, <<c>>)

\* Vec::drain(start..end) panics unless start <= end <= len
Editor_remove(ed, start, end, cursor) ==
    IF start > end \/ end > num_chars(cur_buf(ed)) THEN panic(ed)
    ELSE Editor_display(
             [with_cur_buf(ed, Buffer_remove(cur_buf(ed), start, end))
                 EXCEPT !.cursor = cursor])

delete_before_cursor(ed) ==
    IF ed.panicked THEN ed
    ELSE IF ed.cursor > 0
         THEN Editor_remove(ed, ed.cursor - 1, ed.cursor, ed.cursor - 1)
         ELSE Editor_display(ed)

delete_after_cursor(ed) ==
    IF ed.panicked THEN ed
    ELSE IF ed.cursor < num_chars(cur_buf(ed))
         THEN Editor_remove(ed, ed.cursor, ed.cursor + 1, ed.cursor)
         ELSE Editor_display(ed)

delete_all_before_cursor(ed) ==
    IF ed.panicked THEN ed ELSE Editor_remove(ed, 0, ed.cursor, 0)

delete_all_after_cursor(ed) ==
    IF ed.panicked THEN ed
    ELSE Editor_remove(ed, ed.cursor, num_chars(cur_buf(ed)), ed.cursor)

delete_until(ed, position) ==
    IF ed.panicked THEN ed
    ELSE Editor_remove(ed, Min(ed.cursor, position), Max(ed.cursor, position),
                       Min(ed.cursor, position))

delete_until_inclusive(ed, position) ==
    IF ed.panicked THEN ed
    ELSE Editor_remove(ed, Min(ed.cursor, position),
                       Max(ed.cursor + 1, position + 1), Min(ed.cursor, position))

get_words_and_cursor_position(ed) ==
    LET words == get_buffer_words(cur_buf(ed))
    IN  [words |-> words, pos |-> CursorPosition_get(ed.cursor, words)]

get_word_before_cursor(ed, ignore_space_before_cursor) ==
    LET wp == get_words_and_cursor_position(ed)
        words == wp.words
        pos == wp.pos
    IN  CASE pos.kind = "InWord" -> Some(words[pos.i + 1])
          [] pos.kind = "InSpace" /\ pos.left # None ->
                IF ignore_space_before_cursor THEN Some(words[pos.left[1] + 1]) ELSE None
          [] pos.kind = "InSpace" /\ pos.left = None -> None
          [] pos.kind = "OnWordLeftEdge" ->
                IF ignore_space_before_cursor /\ pos.i > 0 THEN Some(words[pos.i]) ELSE None
          [] pos.kind = "OnWordRightEdge" -> Some(words[pos.i + 1])

\* moved is the number of chars removed, cursor - start
delete_word_before_cursor(ed, ignore_space_before_cursor) ==
    IF ed.panicked THEN ed
    ELSE LET w == get_word_before_cursor(ed, ignore_space_before_cursor)
         IN  IF w # None THEN Editor_remove(ed, w[1][1], ed.cursor, w[1][1])
             ELSE Editor_display(ed)

\* the screen is cleared and painted again
clear(ed) == Editor_display(ed)

move_up(ed) ==
    IF ed.panicked THEN ed
    ELSE IF ed.cur_history_loc # None
         THEN IF ed.cur_history_loc[1] > 0
              THEN move_cursor_to_end_of_line(
                       [ed EXCEPT !.cur_history_loc = Some(ed.cur_history_loc[1] - 1)])
              ELSE Editor_display(ed)
         ELSE IF Len(ed.hist) > 0
              THEN move_cursor_to_end_of_line(
                       [ed EXCEPT !.cur_history_loc = Some(Len(ed.hist) - 1)])
              ELSE Editor_display(ed)

\* move_down that stays at the newest history entry
Mut_move_down(ed) ==
    IF ed.panicked THEN ed
    ELSE IF ed.cur_history_loc # None
         THEN IF ed.cur_history_loc[1] < Len(ed.hist) - 1
              THEN move_cursor_to_end_of_line(
                       [ed EXCEPT !.cur_history_loc = Some(ed.cur_history_loc[1] + 1)])
              ELSE move_cursor_to_end_of_line(ed)
         ELSE Editor_display(ed)

move_down(ed) ==
    IF ed.panicked THEN ed
    ELSE IF ed.cur_history_loc # None
         THEN IF ed.cur_history_loc[1] < Len(ed.hist) - 1
              THEN move_cursor_to_end_of_line(
                       [ed EXCEPT !.cur_history_loc = Some(ed.cur_history_loc[1] + 1)])
              ELSE move_cursor_to_end_of_line([ed EXCEPT !.cur_history_loc = None])
         ELSE Editor_display(ed)

move_to_start_of_history(ed) ==
    IF ed.panicked THEN ed
    ELSE IF Len(ed.hist) > 0
         THEN move_cursor_to_end_of_line([ed EXCEPT !.cur_history_loc = Some(0)])
         ELSE Editor_display([ed EXCEPT !.cur_history_loc = None])

move_to_end_of_history(ed) ==
    IF ed.panicked THEN ed
    ELSE IF ed.cur_history_loc # None
         THEN move_cursor_to_end_of_line([ed EXCEPT !.cur_history_loc = None])
         ELSE Editor_display(ed)

\* what a call wrote to self.out, of the writes the claims are about
CRLF == "\r\n"

CompletionList == "completions"

\* handle_newline that leaves the completion hint latch alone
Mut_handle_newline(ed) ==
    IF ed.panicked THEN [ed |-> ed, done |-> FALSE, out |-> <<>>]
    ELSE IF char_before(cur_buf(ed), ed.cursor) = Some("\\")
         THEN [ed |-> insert_after_cursor(ed, NL), done |-> FALSE, out |-> <<>>]
         ELSE [ed |-> Editor_display([ed EXCEPT !.cursor = num_chars(cur_buf(ed))]),
               done |-> TRUE, out |-> <<CRLF>>]

\* handle_newline: the editor after the call, the value returned and what
\* was written
handle_newline(ed) ==
    IF ed.panicked THEN [ed |-> ed, done |-> FALSE, out |-> <<>>]
    ELSE IF char_before(cur_buf(ed), ed.cursor) = Some("\\")
         THEN [ed |-> insert_after_cursor(ed, NL), done |-> FALSE, out |-> <<>>]
         ELSE [ed |-> [Editor_display([ed EXCEPT !.cursor = num_chars(cur_buf(ed))])
                          EXCEPT !.show_completions_hint = FALSE],
               done |-> TRUE, out |-> <<CRLF>>]

\* Editor::undo / redo / revert on the result r of the Buffer's method
after_undo(ed, r) ==
    [ed |-> IF r.did THEN move_cursor_to_end_of_line(with_cur_buf(ed, r.buf))
            ELSE Editor_display(with_cur_buf(ed, r.buf)),
     did |-> r.did]

Editor_undo(ed) ==
    IF ed.panicked THEN [ed |-> ed, did |-> FALSE]
    ELSE after_undo(ed, Buffer_undo(cur_buf(ed)))

Editor_redo(ed) ==
    IF ed.panicked THEN [ed |-> ed, did |-> FALSE]
    ELSE after_undo(ed, Buffer_redo(cur_buf(ed)))

Editor_revert(ed) ==
    IF ed.panicked THEN [ed |-> ed, did |-> FALSE]
    ELSE after_undo(ed, Buffer_revert(cur_buf(ed)))

skip_completions_hint(ed) == [ed EXCEPT !.show_completions_hint = FALSE]

\* accept_autosuggestion inserting the whole suggestion, not its tail
Mut_accept_autosuggestion(ed) ==
    IF ed.panicked THEN ed
    ELSE LET autosuggestion == current_autosuggestion(ed)
             buf == cur_buf(ed)
         IN  IF autosuggestion = None THEN move_cursor_to_end_of_line(ed)
             ELSE move_cursor_to_end_of_line(
                      with_cur_buf(ed,
                          Buffer_insert(buf, Len(buf.data),
                                        ed.hist[autosuggestion[1] + 1].data)))

\* insert_from_buffer: other.data[start..] with start past the end of other
\* panics
accept_autosuggestion(ed) ==
    IF ed.panicked THEN ed
    ELSE LET autosuggestion == current_autosuggestion(ed)
             buf == cur_buf(ed)
             start == Len(buf.data)
         IN  IF autosuggestion = None THEN move_cursor_to_end_of_line(ed)
             ELSE LET x == ed.hist[autosuggestion[1] + 1]
                  IN  IF start > Len(x.data) THEN panic(ed)
                      ELSE move_cursor_to_end_of_line(
                               with_cur_buf(ed,
                                   Buffer_insert(buf, start,
                                       SubSeq(x.data, start + 1, Len(x.data)))))

\* complete: the editor after the call and what was written
complete(ed) ==
    IF ed.panicked \/ ed.completer = None THEN [ed |-> ed, out |-> <<>>]
    ELSE LET word_range == get_word_before_cursor(ed, FALSE)
             word == IF word_range = None THEN <<>>
                     ELSE range_chars(cur_buf(ed), word_range[1][1], word_range[1][2])
             completions == sort_dedup(BasicCompleter_completions(ed.completer[1], word))
             common_prefix == find_longest_common_prefix(completions)
         IN  IF Len(completions) = 0
             THEN [ed |-> [ed EXCEPT !.show_completions_hint = FALSE], out |-> <<>>]
             ELSE IF Len(completions) = 1
             THEN [ed |-> insert_chars_after_cursor(
                              delete_word_before_cursor(
                                  [ed EXCEPT !.show_completions_hint = FALSE], FALSE),
                              completions[1]),
                   out |-> <<>>]
             ELSE IF /\ common_prefix # None
                     /\ Len(common_prefix[1]) > Len(word)
                     /\ str_starts_with(common_prefix[1], word)
             THEN [ed |-> insert_chars_after_cursor(delete_word_before_cursor(ed, FALSE),
                                                    common_prefix[1]),
                   out |-> <<>>]
             ELSE IF ed.show_completions_hint
             THEN [ed |-> [Editor_display(ed) EXCEPT !.show_completions_hint = FALSE],
                   out |-> <<CRLF, CompletionList, CRLF>>]
             ELSE [ed |-> [ed EXCEPT !.show_completions_hint = TRUE], out |-> <<>>]

(***************************************************************************)
(* u32 arithmetic of the Vi counts.  A number is the sequence of its       *)
(* base-10000 digits, least significant first, without leading zeros, so   *)
(* that values up to u32::MAX and their products can be written.           *)
(***************************************************************************)
RECURSIVE BigNorm(_)
BigNorm(a) == IF a # <<>> /\ Last(a) = 0 THEN BigNorm(Front(a)) ELSE a

RECURSIVE BigFromInt(_)
BigFromInt(n) == IF n = 0 THEN <<>> ELSE <<n % 10000>> \o BigFromInt(n \div 10000)

\* the integer a number stands for, when it fits the integers of the model
RECURSIVE BigToInt(_)
BigToInt(a) == IF a = <<>> THEN 0 ELSE Head(a) + 10000 * BigToInt(Tail(a))

RECURSIVE BigAdd(_, _, _)
BigAdd(a, b, carry) ==
    IF a = <<>> /\ b = <<>> THEN BigFromInt(carry)
    ELSE LET t == (IF a = <<>> THEN 0 ELSE Head(a)) + (IF b = <<>> THEN 0 ELSE Head(b))
                  + carry
         IN  <<t % 10000>> \o BigAdd(IF a = <<>> THEN a ELSE Tail(a),
                                     IF b = <<>> THEN b ELSE Tail(b), t \div 10000)

\* a * k + carry for k, carry < 10000
RECURSIVE BigMulSmall(_, _, _)
BigMulSmall(a, k, carry) ==
    IF a = <<>> THEN BigFromInt(carry)
    ELSE LET t == Head(a) * k + carry
         IN  <<t % 10000>> \o BigMulSmall(Tail(a), k, t \div 10000)

RECURSIVE BigMul(_, _)
BigMul(a, b) ==
    IF b = <<>> THEN <<>>
    ELSE BigNorm(BigAdd(BigMulSmall(a, Head(b), 0), <<0>> \o BigMul(a, Tail(b)), 0))

BigLess(a, b) ==
    \/ Len(a) < Len(b)
    \/ /\ Len(a) = Len(b)
       /\ \E i \in 1..Len(a) : a[i] < b[i] /\ \A j \in (i + 1)..Len(a) : a[j] = b[j]

BigMin(a, b) == IF BigLess(b, a) THEN b ELSE a

\* u32::MAX, 4294967295
U32_MAX == <<7295, 9496, 42>>

saturating_mul(a, b) == BigMin(BigMul(a, b), U32_MAX)

saturating_add(a, b) == BigMin(BigNorm(BigAdd(a, b, 0)), U32_MAX)

\* count = count * 10 + i
count_digit(count, c) ==
    saturating_add(saturating_mul(count, BigFromInt(10)), BigFromInt(to_digit(c)))

\* the count for the movement when the counts are not multiplied
Mut_delete_count(count, secondary_count) ==
    IF count = <<>> THEN secondary_count ELSE count

\* the count handle_key_delete_or_change gives the movement
delete_count(count, secondary_count) ==
    IF secondary_count = <<>> THEN count
    ELSE IF count = <<>> THEN secondary_count
    ELSE saturating_mul(secondary_count, count)

(***************************************************************************)
(* keymap/emacs.rs and keymap/vi.rs.  A keymap is a record of the Editor   *)
(* it owns and the fields of both keymaps; kind tells which one it is.     *)
(***************************************************************************)
\* the char '\x7F'
DEL == "DEL"

Mode(m, pos, mv) == [m |-> m, pos |-> pos, mv |-> mv]

Normal == Mode("Normal", 0, "None")

ModeInsert == Mode("Insert", 0, "None")

Replace == Mode("Replace", 0, "None")

Delete(start_pos) == Mode("Delete", start_pos, "None")

MoveToChar(movement) == Mode("MoveToChar", 0, movement)

G == Mode("G", 0, "None")

Tilde == Mode("Tilde", 0, "None")

KeyMap_fields(kind, ed) ==
    [kind |-> kind, ed |-> ed, last_arg_fetch_index |-> None,
     mode_stack |-> <<>>, current_command |-> <<>>, last_command |-> <<>>,
     current_insert |-> None, last_insert |-> None, count |-> 0,
     secondary_count |-> 0, last_count |-> 0, movement_reset |-> FALSE,
     last_char_movement |-> None]

Emacs_new(ed) == KeyMap_fields("Emacs", ed)

emacs_move_word(ed, direction) ==
    LET wp == get_words_and_cursor_position(ed)
        words == wp.words
        pos == wp.pos
        word_index ==
            CASE pos.kind = "InWord" -> Some(pos.i)
              [] pos.kind = "OnWordLeftEdge" ->
                    IF pos.i > 0 /\ direction = "Left" THEN Some(pos.i - 1) ELSE Some(pos.i)
              [] pos.kind = "OnWordRightEdge" ->
                    IF pos.i < Len(words) - 1 /\ direction = "Right"
                    THEN Some(pos.i + 1) ELSE Some(pos.i)
              [] pos.kind = "InSpace" ->
                    IF direction = "Left" THEN pos.left ELSE pos.right
    IN  IF ed.panicked \/ word_index = None THEN ed
        ELSE move_cursor_to(ed, IF direction = "Left" THEN words[word_index[1] + 1][1]
                                ELSE words[word_index[1] + 1][2])

handle_ctrl_key(km, c) ==
    CASE c = "l" -> [km EXCEPT !.ed = clear(km.ed)]
      [] c = "a" -> [km EXCEPT !.ed = move_cursor_to_start_of_line(km.ed)]
      [] c = "e" -> [km EXCEPT !.ed = move_cursor_to_end_of_line(km.ed)]
      [] c = "b" -> [km EXCEPT !.ed = move_cursor_left(km.ed, 1)]
      [] c = "f" -> [km EXCEPT !.ed = move_cursor_right(km.ed, 1)]
      [] c = "d" -> [km EXCEPT !.ed = delete_after_cursor(km.ed)]
      [] c = "p" -> [km EXCEPT !.ed = move_up(km.ed)]
      [] c = "n" -> [km EXCEPT !.ed = move_down(km.ed)]
      [] c = "u" -> [km EXCEPT !.ed = delete_all_before_cursor(km.ed)]
      [] c = "k" -> [km EXCEPT !.ed = delete_all_after_cursor(km.ed)]
      [] c = "w" -> [km EXCEPT !.ed = delete_word_before_cursor(km.ed, TRUE)]
      [] c = "x" -> [km EXCEPT !.ed = Editor_undo(km.ed).ed]
      [] OTHER -> km

\* the deletion of the argument fetched before: buffer_len - last_arg_len
delete_last_fetch(ed) ==
    LET la == last_arg(cur_buf(ed))
    IN  IF la = None THEN ed
        ELSE delete_until(ed, num_chars(cur_buf(ed)) - Len(la[1]))

handle_last_arg_fetch(km) ==
    IF Len(km.ed.hist) = 0 \/ km.last_arg_fetch_index = Some(0) THEN km
    ELSE LET history_index ==
                 IF km.last_arg_fetch_index # None THEN km.last_arg_fetch_index[1] - 1
                 ELSE IF km.ed.cur_history_loc # None THEN km.ed.cur_history_loc[1]
                 ELSE Len(km.ed.hist) - 1
             ed1 == IF km.last_arg_fetch_index # None THEN delete_last_fetch(km.ed)
                    ELSE km.ed
             la == last_arg(ed1.hist[history_index + 1])
             ed2 == IF la # None THEN insert_chars_after_cursor(ed1, la[1]) ELSE ed1
         IN  [km EXCEPT !.ed = ed2, !.last_arg_fetch_index = Some(history_index)]

handle_alt_key(km, c) ==
    CASE c = "<" -> [km EXCEPT !.ed = move_to_start_of_history(km.ed)]
      [] c = ">" -> [km EXCEPT !.ed = move_to_end_of_history(km.ed)]
      [] c = DEL -> [km EXCEPT !.ed = delete_word_before_cursor(km.ed, TRUE)]
      [] c = "f" -> [km EXCEPT !.ed = emacs_move_word(km.ed, "Right")]
      [] c = "b" -> [km EXCEPT !.ed = emacs_move_word(km.ed, "Left")]
      [] c = "r" -> [km EXCEPT !.ed = Editor_revert(km.ed).ed]
      [] c = "." -> handle_last_arg_fetch(km)
      [] OTHER -> km

Emacs_handle_key_core(km0, key) ==
    LET km == IF key = KAlt(".") THEN km0 ELSE [km0 EXCEPT !.last_arg_fetch_index = None]
    IN  IF km.ed.panicked THEN km
        ELSE CASE key.t = "Char" -> [km EXCEPT !.ed = insert_after_cursor(km.ed, key.c)]
               [] key.t = "Alt" -> handle_alt_key(km, key.c)
               [] key.t = "Ctrl" -> handle_ctrl_key(km, key.c)
               [] key.t = "Left" -> [km EXCEPT !.ed = move_cursor_left(km.ed, 1)]
               [] key.t = "Right" -> [km EXCEPT !.ed = move_cursor_right(km.ed, 1)]
               [] key.t = "Up" -> [km EXCEPT !.ed = move_up(km.ed)]
               [] key.t = "Down" -> [km EXCEPT !.ed = move_down(km.ed)]
               [] key.t = "Home" -> [km EXCEPT !.ed = move_cursor_to_start_of_line(km.ed)]
               [] key.t = "End" -> [km EXCEPT !.ed = move_cursor_to_end_of_line(km.ed)]
               [] key.t = "Backspace" -> [km EXCEPT !.ed = delete_before_cursor(km.ed)]
               [] key.t = "Delete" -> [km EXCEPT !.ed = delete_after_cursor(km.ed)]
               [] OTHER -> km

is_movement_key(key) ==
    \/ key.t = "Char" /\ key.c \in {"h", "l", "w", "W", "b", "B", "e", "E", "g", " ",
                                    "$", "t", "f", "T", "F", ";", ","}
    \/ key.t \in {"Left", "Right", "Backspace", "Home", "End"}

is_vi_keyword(c) == c = "_" \/ is_alphanumeric(c)

\* ViMoveDir::advance: the cursor after the move, the cursor itself when the
\* move returns false
advance(direction, cursor, max) ==
    IF direction = "Right" THEN (IF cursor = max THEN cursor ELSE cursor + 1)
    ELSE (IF cursor = 0 THEN cursor ELSE cursor - 1)

go_back(direction, cursor, max) ==
    advance(IF direction = "Right" THEN "Left" ELSE "Right", cursor, max)

\* the while loop of vi_move_word: the cursor it ends on, and brk when it
\* ended by `break 'repeat`
RECURSIVE move_word_while(_, _, _, _, _)
move_word_while(b, cursor0, state, move_mode, direction) ==
    LET cursor == advance(direction, cursor0, num_chars(b))
        ch == char_after(b, cursor)
    IN  IF cursor = cursor0 THEN [cursor |-> cursor0, brk |-> FALSE]
        ELSE IF ch = None THEN [cursor |-> cursor, brk |-> TRUE]
        ELSE LET c == ch[1]
             IN  CASE state = "Whitespace" ->
                        IF is_whitespace(c)
                        THEN move_word_while(b, cursor, state, move_mode, direction)
                        ELSE [cursor |-> cursor, brk |-> FALSE]
                   [] state = "Keyword" ->
                        IF is_whitespace(c)
                        THEN move_word_while(b, cursor, "Whitespace", move_mode, direction)
                        ELSE IF move_mode = "Keyword" /\ ~is_vi_keyword(c)
                        THEN [cursor |-> cursor, brk |-> FALSE]
                        ELSE move_word_while(b, cursor, state, move_mode, direction)
                   [] state = "NonKeyword" ->
                        IF is_whitespace(c)
                        THEN move_word_while(b, cursor, "Whitespace", move_mode, direction)
                        ELSE IF move_mode = "Keyword" /\ is_vi_keyword(c)
                        THEN [cursor |-> cursor, brk |-> FALSE]
                        ELSE move_word_while(b, cursor, state, move_mode, direction)

RECURSIVE move_word_for(_, _, _, _, _)
move_word_for(b, cursor, count, move_mode, direction) ==
    IF count = 0 \/ char_after(b, cursor) = None THEN cursor
    ELSE LET c == char_after(b, cursor)[1]
             state == IF is_whitespace(c) THEN "Whitespace"
                      ELSE IF is_vi_keyword(c) THEN "Keyword" ELSE "NonKeyword"
             r == move_word_while(b, cursor, state, move_mode, direction)
         IN  IF r.brk THEN r.cursor
             ELSE move_word_for(b, r.cursor, count - 1, move_mode, direction)

vi_move_word(ed, move_mode, direction, count) ==
    IF ed.panicked THEN ed
    ELSE move_cursor_to(ed, move_word_for(cur_buf(ed), ed.cursor, count, move_mode,
                                          direction))

RECURSIVE move_word_end_while(_, _, _, _, _)
move_word_end_while(b, cursor0, state, move_mode, direction) ==
    LET cursor == advance(direction, cursor0, num_chars(b))
        ch == char_after(b, cursor)
    IN  IF cursor = cursor0 THEN [cursor |-> cursor0, brk |-> FALSE]
        ELSE IF ch = None THEN [cursor |-> cursor, brk |-> TRUE]
        ELSE LET c == ch[1]
                 back == [cursor |-> go_back(direction, cursor, num_chars(b)),
                          brk |-> FALSE]
             IN  CASE state = "Whitespace" ->
                        move_word_end_while(b, cursor,
                            IF is_whitespace(c) THEN "Whitespace"
                            ELSE IF move_mode = "Keyword" /\ is_vi_keyword(c)
                            THEN "EndOnWord"
                            ELSE IF move_mode = "Whitespace" THEN "EndOnWhitespace"
                            ELSE "EndOnOther",
                            move_mode, direction)
                   [] state = "EndOnWord" /\ ~is_vi_keyword(c) -> back
                   [] state = "EndOnWhitespace" /\ is_whitespace(c) -> back
                   [] state = "EndOnOther" /\ (is_whitespace(c) \/ is_vi_keyword(c)) -> back
                   [] OTHER -> move_word_end_while(b, cursor, state, move_mode, direction)

RECURSIVE move_word_end_for(_, _, _, _, _)
move_word_end_for(b, cursor, count, move_mode, direction) ==
    IF count = 0 THEN cursor
    ELSE LET r == move_word_end_while(b, cursor, "Whitespace", move_mode, direction)
         IN  IF r.brk THEN r.cursor
             ELSE move_word_end_for(b, r.cursor, count - 1, move_mode, direction)

vi_move_word_end(ed, move_mode, direction, count) ==
    IF ed.panicked THEN ed
    ELSE move_cursor_to(ed, move_word_end_for(cur_buf(ed), ed.cursor, count, move_mode,
                                              direction))

move_word(ed, count) == vi_move_word(ed, "Keyword", "Right", count)

move_word_ws(ed, count) == vi_move_word(ed, "Whitespace", "Right", count)

move_to_end_of_word_back(ed, count) == vi_move_word(ed, "Keyword", "Left", count)

move_to_end_of_word_ws_back(ed, count) == vi_move_word(ed, "Whitespace", "Left", count)

move_to_end_of_word(ed, count) == vi_move_word_end(ed, "Keyword", "Right", count)

move_to_end_of_word_ws(ed, count) == vi_move_word_end(ed, "Whitespace", "Right", count)

move_word_back(ed, count) == vi_move_word_end(ed, "Keyword", "Left", count)

move_word_ws_back(ed, count) == vi_move_word_end(ed, "Whitespace", "Left", count)

\* the count-th offset >= start that holds ch
find_char(b, start, ch, count) ==
    LET hits == {i \in start..(Len(b.data) - 1) : b.data[i + 1] = ch}
        nth == {i \in hits : Cardinality({j \in hits : j <= i}) = count}
    IN  IF nth = {} THEN None ELSE Some(CHOOSE i \in nth : TRUE)

\* the count-th offset < start, counted from start downwards, that holds ch
find_char_rev(b, start, ch, count) ==
    LET hits == {i \in 0..(Min(start, Len(b.data)) - 1) : b.data[i + 1] = ch}
        nth == {i \in hits : Cardinality({j \in hits : j >= i}) = count}
    IN  IF nth = {} THEN None ELSE Some(CHOOSE i \in nth : TRUE)

\* ed.current_buffer_mut().start_undo_group() / end_undo_group()
Vi_start_undo_group(v) ==
    [v EXCEPT !.ed = with_cur_buf(v.ed, start_undo_group(cur_buf(v.ed)))]

Vi_end_undo_group(v) ==
    [v EXCEPT !.ed = with_cur_buf(v.ed, end_undo_group(cur_buf(v.ed)))]

Vi_new(ed) ==
    [Vi_start_undo_group(KeyMap_fields("Vi", ed))
        EXCEPT !.mode_stack = <<ModeInsert>>, !.last_insert = Some(KChar("i"))]

\* ModeStack::mode
mode_of(stack) == IF stack = <<>> THEN Normal ELSE Last(stack)

Vi_mode(v) == mode_of(v.mode_stack)

\* ModeStack::pop: the stack after the pop
popped(stack) == IF stack = <<>> THEN stack ELSE Front(stack)

\* set_mode_preserve_last setting no_eol for every mode but Insert
Mut_set_mode_preserve_last(v, mode) ==
    LET v1 == [v EXCEPT !.ed.no_eol = (mode # ModeInsert),
                        !.movement_reset = (mode # ModeInsert),
                        !.mode_stack = Append(v.mode_stack, mode)]
    IN  IF mode = ModeInsert \/ mode = Tilde THEN Vi_start_undo_group(v1) ELSE v1

set_mode_preserve_last(v, mode) ==
    LET v1 == [v EXCEPT !.ed.no_eol = (mode = Normal),
                        !.movement_reset = (mode # ModeInsert),
                        !.mode_stack = Append(v.mode_stack, mode)]
    IN  IF mode = ModeInsert \/ mode = Tilde THEN Vi_start_undo_group(v1) ELSE v1

set_mode(v, mode) ==
    LET v1 == set_mode_preserve_last(v, mode)
    IN  IF mode = ModeInsert THEN [v1 EXCEPT !.last_count = 0, !.last_command = <<>>]
        ELSE v1

pop_mode_after_movement(v, move_type) ==
    IF v.ed.panicked THEN v
    ELSE LET original_mode == mode_of(v.mode_stack)
             stack1 == popped(v.mode_stack)
             also == mode_of(stack1).m = "Delete"
             last_mode == IF also THEN mode_of(stack1) ELSE original_mode
             stack2 == IF also THEN popped(stack1) ELSE stack1
             v1 == [v EXCEPT !.mode_stack = stack2,
                             !.ed.no_eol = (mode_of(stack2) = Normal),
                             !.movement_reset = (mode_of(stack2) # ModeInsert)]
             v2 == IF last_mode.m = "Delete"
                   THEN [v1 EXCEPT !.ed = IF move_type = "Exclusive"
                                          THEN delete_until(v1.ed, last_mode.pos)
                                          ELSE delete_until_inclusive(v1.ed, last_mode.pos),
                                   !.last_command = v1.current_command,
                                   !.current_command = v1.last_command,
                                   !.last_insert = v1.current_insert,
                                   !.last_count = v1.count,
                                   !.count = 0,
                                   !.secondary_count = 0]
                   ELSE v1
         IN  IF v2.ed.panicked THEN [v1 EXCEPT !.ed = v2.ed]
             ELSE IF original_mode = Normal THEN [v2 EXCEPT !.count = 0] ELSE v2

pop_mode(v) ==
    LET last_mode == mode_of(v.mode_stack)
        stack1 == popped(v.mode_stack)
        v1 == [v EXCEPT !.mode_stack = stack1,
                        !.ed.no_eol = (mode_of(stack1) = Normal),
                        !.movement_reset = (mode_of(stack1) # ModeInsert)]
        v2 == IF last_mode = ModeInsert \/ last_mode = Tilde
              THEN Vi_end_undo_group(v1) ELSE v1
    IN  IF last_mode = Tilde THEN [v2 EXCEPT !.ed = Editor_display(v2.ed)] ELSE v2

normal_mode_abort(v) ==
    [v EXCEPT !.mode_stack = <<>>, !.ed.no_eol = TRUE, !.count = 0]

move_count(v) == IF v.count = 0 THEN 1 ELSE v.count

move_count_left(v) == Min(v.ed.cursor, move_count(v))

\* num_chars - cursor, which underflows when the cursor is past the end
move_count_right(v) == Min(num_chars(cur_buf(v.ed)) - v.ed.cursor, move_count(v))

handle_key_common(v, key) ==
    IF v.ed.panicked THEN v
    ELSE CASE key = KCtrl("l") -> [v EXCEPT !.ed = clear(v.ed)]
           [] key.t = "Left" -> [v EXCEPT !.ed = move_cursor_left(v.ed, 1)]
           [] key.t = "Right" -> [v EXCEPT !.ed = move_cursor_right(v.ed, 1)]
           [] key.t = "Up" -> [v EXCEPT !.ed = move_up(v.ed)]
           [] key.t = "Down" -> [v EXCEPT !.ed = move_down(v.ed)]
           [] key.t = "Home" -> [v EXCEPT !.ed = move_cursor_to_start_of_line(v.ed)]
           [] key.t = "End" -> [v EXCEPT !.ed = move_cursor_to_end_of_line(v.ed)]
           [] key.t = "Backspace" -> [v EXCEPT !.ed = delete_before_cursor(v.ed)]
           [] key.t = "Delete" -> [v EXCEPT !.ed = delete_after_cursor(v.ed)]
           [] OTHER -> v

\* movement_reset_done that goes on in the undo group of the text typed
\* before the movement
Mut_movement_reset_done(v) ==
    IF v.movement_reset
    THEN [v EXCEPT !.last_command = <<>>, !.movement_reset = FALSE,
                   !.last_insert = Some(KChar("i"))]
    ELSE v

\* the start of a new insert after a movement in Insert mode
movement_reset_done(v) ==
    IF v.movement_reset
    THEN [Vi_start_undo_group(Vi_end_undo_group(v))
             EXCEPT !.last_command = <<>>, !.movement_reset = FALSE,
                    !.last_insert = Some(KChar("i"))]
    ELSE v

\* one round of the loop of `~` on the char c after the cursor
tilde_step(ed) ==
    LET ch == char_after(cur_buf(ed), ed.cursor)
    IN  IF ed.panicked THEN ed
        ELSE IF ch = None THEN panic(ed)
        ELSE IF is_lowercase(ch[1])
        THEN insert_after_cursor(delete_after_cursor(ed), to_uppercase(ch[1]))
        ELSE IF is_uppercase(ch[1])
        THEN insert_after_cursor(delete_after_cursor(ed), to_lowercase(ch[1]))
        ELSE move_cursor_right(ed, 1)

RECURSIVE tilde_loop(_, _)
tilde_loop(ed, n) == IF n = 0 THEN ed ELSE tilde_loop(tilde_step(ed), n - 1)

\* the loop of handle_key_replace: delete and insert c, n times
RECURSIVE replace_loop(_, _, _)
replace_loop(ed, c, n) ==
    IF n = 0 THEN ed
    ELSE replace_loop(insert_after_cursor(delete_after_cursor(ed), c), c, n - 1)

\* the loops of `u` and Ctrl-R: up to n undos (redos) while they do something
RECURSIVE undo_times(_, _)
undo_times(ed, n) ==
    IF n = 0 THEN ed
    ELSE LET r == Editor_undo(ed) IN IF r.did THEN undo_times(r.ed, n - 1) ELSE r.ed

RECURSIVE redo_times(_, _)
redo_times(ed, n) ==
    IF n = 0 THEN ed
    ELSE LET r == Editor_redo(ed) IN IF r.did THEN redo_times(r.ed, n - 1) ELSE r.ed

RECURSIVE Vi_handle_key_core(_, _)
RECURSIVE handle_keys_core(_, _)
RECURSIVE insert_repeats(_, _)
RECURSIVE repeat(_)
RECURSIVE repeat_enter(_)
RECURSIVE repeat_leave(_)
RECURSIVE handle_key_insert(_, _)
RECURSIVE handle_key_normal(_, _)
RECURSIVE handle_key_delete_or_change(_, _)

\* `for k in keys { self.handle_key_core(k) }`
handle_keys_core(v, keys) ==
    IF keys = <<>> THEN v
    ELSE handle_keys_core(Vi_handle_key_core(v, Head(keys)), Tail(keys))

\* `for _ in 1..count`: last_command is taken and its keys handled again
insert_repeats(v, n) ==
    IF n <= 0 THEN v
    ELSE insert_repeats(handle_keys_core([v EXCEPT !.last_command = <<>>],
                                         v.last_command), n - 1)

\* enter insert mode if necessary
repeat_enter(v) ==
    IF v.last_insert # None THEN Vi_handle_key_core(v, v.last_insert[1]) ELSE v

\* leave insert mode
repeat_leave(v) == IF v.last_insert # None THEN Vi_handle_key_core(v, KEsc) ELSE v

repeat(v) ==
    [repeat_leave(handle_keys_core(
         repeat_enter([v EXCEPT !.last_count = v.count, !.last_command = <<>>]),
         v.last_command))
        EXCEPT !.last_command = v.last_command]

\* handle_key_insert whose Esc does not replay the inserted text
Mut_handle_key_insert(v, key) ==
    CASE key.t = "Esc" ->
            pop_mode([v EXCEPT !.count = 0, !.ed = move_cursor_left(v.ed, 1)])
      [] key.t = "Char" ->
            LET v1 == movement_reset_done(v)
            IN  [v1 EXCEPT !.last_command = Append(v1.last_command, key),
                           !.ed = insert_after_cursor(v1.ed, key.c)]
      [] OTHER -> handle_key_common(v, key)

handle_key_insert(v, key) ==
    CASE key.t = "Esc" ->
            LET v1 == IF v.count > 0
                      THEN [insert_repeats([v EXCEPT !.last_count = v.count], v.count - 1)
                               EXCEPT !.count = 0]
                      ELSE v
            IN  pop_mode([v1 EXCEPT !.ed = move_cursor_left(v1.ed, 1)])
      [] key.t = "Char" ->
            LET v1 == movement_reset_done(v)
            IN  [v1 EXCEPT !.last_command = Append(v1.last_command, key),
                           !.ed = insert_after_cursor(v1.ed, key.c)]
      [] key.t \in {"Backspace", "Delete"} ->
            LET v1 == movement_reset_done(v)
            IN  handle_key_common([v1 EXCEPT !.last_command = Append(v1.last_command, key)],
                                  key)
      [] key.t \in {"Left", "Right", "Home", "End"} ->
            handle_key_common([v EXCEPT !.count = 0, !.movement_reset = TRUE], key)
      [] key.t = "Up" ->
            LET v1 == Vi_end_undo_group([v EXCEPT !.count = 0, !.movement_reset = TRUE])
            IN  Vi_start_undo_group([v1 EXCEPT !.ed = move_up(v1.ed)])
      [] key.t = "Down" ->
            LET v1 == Vi_end_undo_group([v EXCEPT !.count = 0, !.movement_reset = TRUE])
            IN  Vi_start_undo_group([v1 EXCEPT !.ed = move_down(v1.ed)])
      [] OTHER -> handle_key_common(v, key)

\* handle_key_replace replacing the chars that remain when they are fewer
\* than the count
Mut_handle_key_replace(v, key) ==
    IF key.t = "Char"
    THEN LET v2 == Vi_start_undo_group(
                       [v EXCEPT !.last_insert = None,
                                 !.last_command = <<KChar("r"), key>>,
                                 !.last_count = v.count])
             v3 == Vi_end_undo_group(
                       [v2 EXCEPT !.ed = replace_loop(v2.ed, key.c, move_count_right(v2))])
         IN  [pop_mode([v3 EXCEPT !.ed = move_cursor_left(v3.ed, 1)]) EXCEPT !.count = 0]
    ELSE [normal_mode_abort(v) EXCEPT !.count = 0]

handle_key_replace(v, key) ==
    IF key.t = "Char"
    THEN LET v1 == IF move_count_right(v) = move_count(v)
                   THEN LET v2 == Vi_start_undo_group(
                                      [v EXCEPT !.last_insert = None,
                                                !.last_command = <<KChar("r"), key>>,
                                                !.last_count = v.count])
                            v3 == Vi_end_undo_group(
                                      [v2 EXCEPT !.ed = replace_loop(v2.ed, key.c,
                                                            move_count_right(v2))])
                        IN  [v3 EXCEPT !.ed = move_cursor_left(v3.ed, 1)]
                   ELSE v
         IN  [pop_mode(v1) EXCEPT !.count = 0]
    ELSE [normal_mode_abort(v) EXCEPT !.count = 0]

handle_key_move_to_char(v0, key0, movement0) ==
    LET count == move_count(v0)
        v == [v0 EXCEPT !.count = 0]
        last == v.last_char_movement
        reverse(mv) == CASE mv = "LeftUntil" -> "RightUntil"
                         [] mv = "RightUntil" -> "LeftUntil"
                         [] mv = "LeftAt" -> "RightAt"
                         [] mv = "RightAt" -> "LeftAt"
                         [] OTHER -> mv
        repeats == movement0 = "Repeat" /\ last # None
        reverses == /\ movement0 = "ReverseRepeat"
                    /\ last # None
                    /\ last[1][2] \in {"LeftUntil", "RightUntil", "LeftAt", "RightAt"}
        valid == repeats \/ reverses \/ key0.t = "Char"
        c == IF repeats \/ reverses THEN last[1][1] ELSE key0.c
        movement == IF repeats THEN last[1][2]
                    ELSE IF reverses THEN reverse(last[1][2]) ELSE movement0
        v1 == IF repeats \/ reverses THEN v
              ELSE [v EXCEPT !.last_char_movement = Some(<<key0.c, movement0>>),
                             !.current_command = Append(v.current_command, key0)]
        b == cur_buf(v1.ed)
        found == IF movement \in {"RightUntil", "RightAt"}
                 THEN find_char(b, v1.ed.cursor + 1, c, count)
                 ELSE find_char_rev(b, v1.ed.cursor, c, count)
        target == CASE movement = "RightUntil" -> found[1] - 1
                    [] movement = "RightAt" -> found[1]
                    [] movement = "LeftUntil" -> found[1] + 1
                    [] OTHER -> found[1]
        move_type == IF movement \in {"RightUntil", "RightAt"} THEN "Inclusive"
                     ELSE "Exclusive"
    IN  IF v0.ed.panicked THEN v0
        ELSE IF ~valid THEN normal_mode_abort(v)
        ELSE IF movement \in {"Repeat", "ReverseRepeat"}
        THEN [v1 EXCEPT !.ed = panic(v1.ed)]
        ELSE IF v1.ed.cursor > num_chars(b) /\ movement \in {"LeftUntil", "LeftAt"}
        THEN [v1 EXCEPT !.ed = panic(v1.ed)]
        ELSE pop_mode_after_movement(
                 IF found = None THEN v1
                 ELSE [v1 EXCEPT !.ed = move_cursor_to(v1.ed, target)],
                 move_type)

handle_key_g(v, key) ==
    LET count == move_count(v)
        v1 == [v EXCEPT !.current_command = Append(v.current_command, key)]
        res == CASE key = KChar("e") ->
                      pop_mode_after_movement(
                          [v1 EXCEPT !.ed = move_to_end_of_word_back(v1.ed, count)],
                          "Inclusive")
                 [] key = KChar("E") ->
                      pop_mode_after_movement(
                          [v1 EXCEPT !.ed = move_to_end_of_word_ws_back(v1.ed, count)],
                          "Inclusive")
                 [] OTHER -> normal_mode_abort(v1)
    IN  IF v.ed.panicked THEN v
        ELSE IF res.ed.panicked THEN res ELSE [res EXCEPT !.count = 0]

\* the update of the last command state of D, C, x, Delete and ~
last_command_is(v, key, last_count) ==
    [v EXCEPT !.last_insert = None, !.last_command = <<key>>, !.last_count = last_count]

\* a movement of Normal mode: the Editor moved, then pop_mode_after_movement
moved(v, ed) == pop_mode_after_movement([v EXCEPT !.ed = ed], "Exclusive")

insert_with(v, key) == set_mode([v EXCEPT !.last_insert = Some(key)], ModeInsert)

handle_key_normal(v, key) ==
    IF v.ed.panicked THEN v
    ELSE
    CASE key.t = "Esc" -> [v EXCEPT !.count = 0]
      [] key = KChar("i") -> insert_with(v, key)
      [] key = KChar("a") ->
            LET v1 == insert_with(v, key)
            IN  [v1 EXCEPT !.ed = move_cursor_right(v1.ed, 1)]
      [] key = KChar("A") ->
            LET v1 == insert_with(v, key)
            IN  [v1 EXCEPT !.ed = move_cursor_to_end_of_line(v1.ed)]
      [] key = KChar("I") ->
            LET v1 == insert_with(v, key)
            IN  [v1 EXCEPT !.ed = move_cursor_to_start_of_line(v1.ed)]
      [] key = KChar("s") ->
            LET v1 == insert_with(v, key)
                v2 == [v1 EXCEPT !.ed = IF v1.ed.cursor > num_chars(cur_buf(v1.ed))
                                        THEN panic(v1.ed)
                                        ELSE delete_until(v1.ed, v1.ed.cursor
                                                                 + move_count_right(v1))]
            IN  IF v2.ed.panicked THEN v2
                ELSE [v2 EXCEPT !.last_count = v2.count, !.count = 0]
      [] key = KChar("r") -> set_mode(v, Replace)
      [] key = KChar("d") ->
            LET v1 == [v EXCEPT !.current_insert = None, !.current_command = <<key>>]
                v2 == set_mode(v1, Delete(v1.ed.cursor))
            IN  [v2 EXCEPT !.secondary_count = v2.count, !.count = 0]
      [] key = KChar("c") ->
            LET v1 == set_mode([v EXCEPT !.current_insert = Some(key),
                                         !.current_command = <<>>], ModeInsert)
                v2 == set_mode(v1, Delete(v1.ed.cursor))
            IN  [v2 EXCEPT !.secondary_count = v2.count, !.count = 0]
      [] key = KChar("D") ->
            LET v1 == [last_command_is(v, key, 0) EXCEPT !.count = 0]
            IN  [v1 EXCEPT !.ed = delete_all_after_cursor(v1.ed)]
      [] key = KChar("C") ->
            LET v1 == set_mode_preserve_last(
                          [last_command_is(v, key, 0) EXCEPT !.count = 0], ModeInsert)
            IN  [v1 EXCEPT !.ed = delete_all_after_cursor(v1.ed)]
      [] key = KChar(".") ->
            repeat([v EXCEPT !.count = IF v.count = 0 /\ v.last_count = 0 THEN 1
                                       ELSE IF v.count = 0 THEN v.last_count
                                       ELSE v.count])
      [] key = KChar("h") \/ key.t \in {"Left", "Backspace"} ->
            moved(v, move_cursor_left(v.ed, move_count_left(v)))
      [] key = KChar("l") \/ key.t = "Right" \/ key = KChar(" ") ->
            IF v.ed.cursor > num_chars(cur_buf(v.ed)) THEN [v EXCEPT !.ed = panic(v.ed)]
            ELSE moved(v, move_cursor_right(v.ed, move_count_right(v)))
      [] key = KChar("k") \/ key.t = "Up" -> moved(v, move_up(v.ed))
      [] key = KChar("j") \/ key.t = "Down" -> moved(v, move_down(v.ed))
      [] key = KChar("t") -> set_mode(v, MoveToChar("RightUntil"))
      [] key = KChar("T") -> set_mode(v, MoveToChar("LeftUntil"))
      [] key = KChar("f") -> set_mode(v, MoveToChar("RightAt"))
      [] key = KChar("F") -> set_mode(v, MoveToChar("LeftAt"))
      [] key = KChar(";") -> handle_key_move_to_char(v, key, "Repeat")
      [] key = KChar(",") -> handle_key_move_to_char(v, key, "ReverseRepeat")
      [] key = KChar("w") -> moved(v, move_word(v.ed, move_count(v)))
      [] key = KChar("W") -> moved(v, move_word_ws(v.ed, move_count(v)))
      [] key = KChar("e") -> moved(v, move_to_end_of_word(v.ed, move_count(v)))
      [] key = KChar("E") -> moved(v, move_to_end_of_word_ws(v.ed, move_count(v)))
      [] key = KChar("b") -> moved(v, move_word_back(v.ed, move_count(v)))
      [] key = KChar("B") -> moved(v, move_word_ws_back(v.ed, move_count(v)))
      [] key = KChar("g") -> set_mode(v, G)
      [] key = KChar("0") /\ v.count = 0 -> moved(v, move_cursor_to_start_of_line(v.ed))
      [] key.t = "Char" /\ key.c \in Range(DigitSeq) ->
            [v EXCEPT !.count = BigToInt(count_digit(BigFromInt(v.count), key.c))]
      [] key = KChar("$") -> moved(v, move_cursor_to_end_of_line(v.ed))
      [] key = KChar("x") \/ key.t = "Delete" ->
            LET v1 == last_command_is(v, key, v.count)
                v2 == [v1 EXCEPT !.ed = IF v1.ed.cursor > num_chars(cur_buf(v1.ed))
                                        THEN panic(v1.ed)
                                        ELSE delete_until(v1.ed, v1.ed.cursor
                                                                 + move_count_right(v1))]
            IN  IF v2.ed.panicked THEN v2 ELSE [v2 EXCEPT !.count = 0]
      [] key = KChar("~") ->
            LET v1 == set_mode(last_command_is(v, key, v.count), Tilde)
                v2 == [v1 EXCEPT !.ed = IF v1.ed.cursor > num_chars(cur_buf(v1.ed))
                                        THEN panic(v1.ed)
                                        ELSE tilde_loop(v1.ed, move_count_right(v1))]
            IN  IF v2.ed.panicked THEN v2 ELSE pop_mode(v2)
      [] key = KChar("u") ->
            [v EXCEPT !.count = 0, !.ed = undo_times(v.ed, move_count(v))]
      [] key = KCtrl("r") ->
            [v EXCEPT !.count = 0, !.ed = redo_times(v.ed, move_count(v))]
      [] OTHER -> handle_key_common(v, key)

handle_key_delete_or_change(v, key) ==
    IF v.ed.panicked THEN v
    ELSE
    CASE is_movement_key(key) \/ (key = KChar("0") /\ v.count = 0) ->
            handle_key_normal(
                [v EXCEPT !.count = BigToInt(delete_count(BigFromInt(v.count),
                                                          BigFromInt(v.secondary_count))),
                          !.current_command = Append(v.current_command, key)],
                key)
      [] key.t = "Char" /\ key.c \in Range(DigitSeq) -> handle_key_normal(v, key)
      [] \/ key = KChar("c") /\ v.current_insert = Some(KChar("c"))
         \/ key = KChar("d") /\ v.current_insert = None ->
            LET v1 == [v EXCEPT !.current_command = Append(v.current_command, key),
                                !.count = 0, !.secondary_count = 0]
            IN  pop_mode([v1 EXCEPT !.ed = delete_all_after_cursor(
                                               move_cursor_to_start_of_line(v1.ed))])
      [] OTHER -> normal_mode_abort(v)

Vi_handle_key_core(v, key) ==
    IF v.ed.panicked THEN v
    ELSE LET mode == Vi_mode(v)
         IN  CASE mode.m = "Normal" -> handle_key_normal(v, key)
               [] mode.m = "Insert" -> handle_key_insert(v, key)
               [] mode.m = "Replace" -> handle_key_replace(v, key)
               [] mode.m = "Delete" -> handle_key_delete_or_change(v, key)
               [] mode.m = "MoveToChar" -> handle_key_move_to_char(v, key, mode.mv)
               [] mode.m = "G" -> handle_key_g(v, key)
               [] OTHER -> [v EXCEPT !.ed = panic(v.ed)]

(***************************************************************************)
(* keymap/mod.rs: the dispatcher; context.rs: a read_line session.         *)
(***************************************************************************)
handle_key_core(km, key) ==
    IF km.kind = "Emacs" THEN Emacs_handle_key_core(km, key)
    ELSE Vi_handle_key_core(km, key)

\* what handle_key returns: the keymap after the key, done, and err, the kind
\* of the io::Error ("" for Ok); out is what the call wrote
Returns(km, done, err, out) == [km |-> km, done |-> done, err |-> err, out |-> out]

\* handle_newline called by the dispatcher, r being what it returned
newline_in(km, r, err) ==
    Returns([km EXCEPT !.ed = r.ed], IF err = "" THEN r.done ELSE FALSE, err, r.out)

\* complete called by the dispatcher, r being what it returned
complete_in(km, r) == Returns([km EXCEPT !.ed = r.ed], FALSE, "", r.out)

\* skip_completions_hint after handle_key_core
after_core(km1) ==
    IF km1.ed.panicked THEN km1 ELSE [km1 EXCEPT !.ed = skip_completions_hint(@)]

\* KeyMap::handle_key treating every Ctrl-d as the end of input
Mut_dispatch(km, key) ==
    CASE key = KCtrl("c") -> newline_in(km, handle_newline(km.ed), "Interrupted")
      [] key = KCtrl("d") -> newline_in(km, handle_newline(km.ed), "UnexpectedEof")
      [] key = KChar("\t") -> complete_in(km, complete(km.ed))
      [] key = KChar(NL) -> newline_in(km, handle_newline(km.ed), "")
      [] OTHER -> Returns(after_core(handle_key_core(km, key)), FALSE, "", <<>>)

\* KeyMap::handle_key (Ctrl-h has become Backspace)
dispatch(km, key) ==
    CASE key = KCtrl("c") -> newline_in(km, handle_newline(km.ed), "Interrupted")
      [] key = KCtrl("d") /\ is_empty(cur_buf(km.ed)) ->
            newline_in(km, handle_newline(km.ed), "UnexpectedEof")
      [] key = KChar("\t") -> complete_in(km, complete(km.ed))
      [] key = KChar(NL) -> newline_in(km, handle_newline(km.ed), "")
      [] key = KCtrl("f") /\ is_currently_showing_autosuggestion(km.ed) ->
            Returns([km EXCEPT !.ed = accept_autosuggestion(@)], FALSE, "", <<>>)
      [] /\ key = KRight
         /\ is_currently_showing_autosuggestion(km.ed)
         /\ cursor_is_at_end_of_line(km.ed) ->
            Returns([km EXCEPT !.ed = accept_autosuggestion(@)], FALSE, "", <<>>)
      [] OTHER -> Returns(after_core(handle_key_core(km, key)), FALSE, "", <<>>)

handle_key(km, key) == dispatch(km, IF key = KCtrl("h") THEN KBackspace ELSE key)

\* revert_all_history with one undo for each entry in place of the revert
Mut_revert_all_history(buffers) ==
    [i \in 1..Len(buffers) |-> Buffer_undo(buffers[i]).buf]

\* Context::revert_all_history
revert_all_history(buffers) ==
    [i \in 1..Len(buffers) |-> Buffer_revert(buffers[i]).buf]

\* String::from(keymap): the text of the current buffer
String_from(km) == cur_buf(km.ed).data

(***************************************************************************)
(* State.                                                                  *)
(***************************************************************************)
VARIABLES
    buf,      \* the Buffer of the buffer and group specifications
    b_op,     \* the last method called on buf ("new" after construction)
    b_did,    \* the value that call returned, for undo / redo / revert
    b_pre,    \* buf.data before that call when it was an undo, else <<>>
    rt,       \* the run so far while it is mutations followed by undos only:
              \* the initial text, the mutations made and the undos made
    hist,     \* the History of the history specification
    disk,     \* the bytes of the history file
    h_op,     \* the last method called on hist, its arguments and its result
    h_run,    \* the entries pushed so far while the calls are a run of pushes
              \* onto an empty History whose cap was set before the first
    km,       \* the keymap of the read_line specification, with its Editor
    sess,     \* the read_line session: its phase, the history texts when it
              \* began, the line or error returned, the history after the
              \* return, the keys it handled, its number, the keys handled
              \* by all sessions so far, how many Tab keys in a row the last
              \* keys were (0, 1, or 2 for two and more) and what handle_key
              \* wrote for the last key
    wk,       \* the worker specification: where the worker thread and the
              \* foreground are, the entries pushed with a file path set, the
              \* entries handed to write_to_disk, the last call that returned
              \* and the numbers of push and commit_history calls that returned
    call      \* the last call of a function that is checked on its own: its
              \* name, its arguments and what it returned or left behind

bvars == <<buf, b_op, b_did, b_pre, rt>>

hvars == <<hist, disk, h_op, h_run>>

evars == <<km, sess>>

cvars == <<call>>

wvars == <<wk>>

vars == <<bvars, hvars, evars, cvars, wvars>>

\* the History as History::new leaves it: the worker at the top of its loop
WorkerNew ==
    [pc |-> "while", fg |-> "idle", sent |-> <<>>, handed |-> <<>>, last |-> "new",
     pushes |-> 0, commits |-> 0]

\* the worker specification is not in use
WorkerIdle == wk = WorkerNew

\* no function has been called on its own
CallIdle == call = [fn |-> "", args |-> <<>>, ret |-> <<>>]

NoSession ==
    [phase |-> "idle", start |-> <<>>, line |-> <<>>, err |-> "", after |-> <<>>,
     n |-> 0, k |-> 0, keys |-> 0, tabs |-> 0, out |-> <<>>]

\* no read_line session is in use
EditorIdle ==
    /\ km = KeyMap_fields("", Editor_new_fields(<<>>, None, Buffer_new))
    /\ sess = NoSession

\* the Buffer of the buffer specification is not in use
BufferIdle ==
    /\ buf = Buffer_new
    /\ b_op = "new"
    /\ b_did = FALSE
    /\ b_pre = <<>>
    /\ rt = [init |-> <<>>, n |-> 0, u |-> 0, pure |-> FALSE]

\* before: the number of entries when the call was made
NoCall ==
    [name |-> "new", item |-> <<>>, k |-> None, p |-> <<>>, ret |-> None,
     before |-> 0]

\* the History of the history specification is not in use
HistoryIdle ==
    /\ hist = History_new
    /\ disk = <<>>
    /\ h_op = NoCall
    /\ h_run = [pure |-> FALSE, pushed |-> <<>>]

(***************************************************************************)
(* The buffer specification: one Buffer, built from any text, on which     *)
(* every public method is called in any order with valid offsets.          *)
(***************************************************************************)
BufChars == {"a", "b"}

Mutations(b) ==
    Cardinality({i \in 1..Len(b.actions) : ~IsMarker(b.actions[i])})
    + Cardinality({i \in 1..Len(b.undone_actions) : ~IsMarker(b.undone_actions[i])})

Markers(b) == Len(b.actions) + Len(b.undone_actions) - Mutations(b)

MutationOps == {"insert", "remove", "truncate"}

MarkerOps == {"start_undo_group", "end_undo_group"}

NotARun == [init |-> <<>>, n |-> 0, u |-> 0, pure |-> FALSE]

\* the run after one more call: a mutation extends it while no undo was made
\* yet, an undo extends it while a mutation is left to undo, anything else
\* ends it
RunAfter(op) ==
    CASE op \in MutationOps ->
            IF rt.pure /\ rt.u = 0 THEN [rt EXCEPT !.n = rt.n + 1] ELSE NotARun
      [] op = "undo" ->
            IF rt.pure /\ rt.u < rt.n THEN [rt EXCEPT !.u = rt.u + 1] ELSE NotARun
      [] OTHER -> NotARun

Called(op, did, b) ==
    /\ buf' = b
    /\ b_op' = op
    /\ b_did' = did
    /\ b_pre' = IF op = "undo" THEN buf.data ELSE <<>>
    /\ rt' = RunAfter(op)
    /\ UNCHANGED <<hvars, evars, cvars, wvars>>

InitBuffer(maxLen) ==
    /\ \E text \in SeqsUpTo(BufChars, maxLen) :
          /\ buf = Buffer_from(text)
          /\ rt = [init |-> text, n |-> 0, u |-> 0, pure |-> TRUE]
    /\ b_pre = <<>>
    /\ b_op = "new"
    /\ b_did = FALSE
    /\ HistoryIdle
    /\ EditorIdle
    /\ CallIdle
    /\ WorkerIdle

\* room: the journals may take one more mutation (the bound of the specification)
BInsert(room, maxLen) ==
    /\ room
    /\ \E start \in 0..Len(buf.data) :
       \E text \in SeqsUpTo(BufChars, Min(1, maxLen - Len(buf.data))) :
          Called("insert", FALSE, Buffer_insert(buf, start, text))

BRemove(room) ==
    /\ room
    /\ \E start \in 0..Len(buf.data) :
       \E end \in start..Len(buf.data) :
          Called("remove", FALSE, Buffer_remove(buf, start, end))

BTruncate(room) ==
    /\ room
    /\ \E num \in 0..Len(buf.data) :
          Called("truncate", FALSE, Buffer_truncate(buf, num))

\* room: the journals may take one more marker
BStartGroup(room) ==
    /\ room
    /\ Called("start_undo_group", FALSE, start_undo_group(buf))

BEndGroup(room) ==
    /\ room
    /\ Called("end_undo_group", FALSE, end_undo_group(buf))

BUndo == LET r == Buffer_undo(buf) IN Called("undo", r.did, r.buf)

BRedo == LET r == Buffer_redo(buf) IN Called("redo", r.did, r.buf)

BRevert == LET r == Buffer_revert(buf) IN Called("revert", r.did, r.buf)

OpsRoom == Len(buf.actions) + Len(buf.undone_actions) < MaxOps

Init == InitBuffer(MaxLen)

Next ==
    \/ BInsert(OpsRoom, MaxLen)
    \/ BRemove(OpsRoom)
    \/ BTruncate(OpsRoom)
    \/ BStartGroup(OpsRoom)
    \/ BEndGroup(OpsRoom)
    \/ BUndo
    \/ BRedo
    \/ BRevert

Spec == Init /\ [][Next]_vars

(***************************************************************************)
(* The group specification: the same Buffer and methods, with room for     *)
(* nested groups on the journals over a smaller universe of texts.         *)
(***************************************************************************)
InitGroups == InitBuffer(MaxGroupLen)

NextGroups ==
    \/ BInsert(Mutations(buf) < MaxGroupMut, MaxGroupLen)
    \/ BRemove(Mutations(buf) < MaxGroupMut)
    \/ BTruncate(Mutations(buf) < MaxGroupMut)
    \/ BStartGroup(Markers(buf) < MaxGroupMark)
    \/ BEndGroup(Markers(buf) < MaxGroupMark)
    \/ BUndo
    \/ BRedo
    \/ BRevert

SpecGroups == InitGroups /\ [][NextGroups]_vars

(***************************************************************************)
(* The history specification: one History, built by History::new over a    *)
(* history file left by earlier runs, on which every public method is      *)
(* called in any order while its worker thread runs.                       *)
(***************************************************************************)
\* the texts of the entries pushed and of the lines of the history file
HistTexts == {<<"a">>, <<"a", "b">>}

HistFileName == "history"

\* the files of at most n whole lines
RECURSIVE FilesUpTo(_)
FilesUpTo(n) ==
    IF n = 0 THEN {<<>>}
    ELSE FilesUpTo(n - 1)
         \cup {f \o t \o <<NL>> : f \in FilesUpTo(n - 1), t \in HistTexts}

\* the run of pushes after one more call: set_max_size keeps it while nothing
\* was pushed, a push of an entry other than the one pushed before extends
\* it, calls that leave the deque alone keep it, anything else ends it
HRunAfter(name, item) ==
    CASE name = "push" ->
            IF /\ h_run.pure
               /\ Len(h_run.pushed) <= MaxHistLen
               /\ (h_run.pushed = <<>> \/ Last(h_run.pushed) # item)
            THEN [h_run EXCEPT !.pushed = Append(h_run.pushed, item)]
            ELSE [pure |-> FALSE, pushed |-> <<>>]
      [] name = "set_max_size" ->
            IF h_run.pure /\ h_run.pushed = <<>> THEN h_run
            ELSE [pure |-> FALSE, pushed |-> <<>>]
      [] name = "load_history" -> [pure |-> FALSE, pushed |-> <<>>]
      [] OTHER -> h_run

\* a call on the History: it is left as h, the file as file
HCalled(name, item, k, p, ret, h, file) ==
    /\ Len(h.buffers) <= MaxHistLen
    /\ Len(h.channel) <= MaxQueue
    /\ bytecount_count(file) <= MaxFileLines
    /\ hist' = h
    /\ disk' = file
    /\ h_op' = [name |-> name, item |-> item, k |-> k, p |-> p, ret |-> ret,
                before |-> Len(hist.buffers)]
    /\ h_run' = HRunAfter(name, item)
    /\ UNCHANGED <<bvars, evars, cvars, wvars>>

InitHistory ==
    /\ hist = History_new
    /\ disk \in FilesUpTo(MaxFileLines)
    /\ h_op = NoCall
    /\ h_run = [pure |-> TRUE, pushed |-> <<>>]
    /\ BufferIdle
    /\ EditorIdle
    /\ CallIdle
    /\ WorkerIdle

HPush ==
    \E item \in HistTexts :
       HCalled("push", item, None, <<>>, None,
               History_push(hist, Buffer_from(item)), disk)

HGetNewestMatch ==
    \E k \in {None} \cup {Some(i) : i \in 0..(Len(hist.buffers) + 1)} :
    \E p \in {<<>>} \cup HistTexts :
       HCalled("get_newest_match", <<>>, k, p,
               get_newest_match(hist, k, Buffer_from(p)), hist, disk)

HSetFileName ==
    \E name \in {None, Some(HistFileName)} :
       HCalled("set_file_name", <<>>, None, <<>>, None,
               set_file_name(hist, name), disk)

HSetMaxSize ==
    \E size \in 0..MaxHistLen :
       HCalled("set_max_size", <<>>, None, <<>>, None,
               set_max_size(hist, size), disk)

HSetMaxFileSize ==
    \E size \in 0..MaxFileLines :
       HCalled("set_max_file_size", <<>>, None, <<>>, None,
               set_max_file_size(hist, size), disk)

\* the public field append_duplicate_entries is assigned
HSetAppendDuplicates ==
    \E flag \in BOOLEAN :
       HCalled("append_duplicate_entries", <<>>, None, <<>>, None,
               [hist EXCEPT !.append_duplicate_entries = flag], disk)

HLoadHistory ==
    HCalled("load_history", <<>>, None, <<>>, None, load_history(hist, disk), disk)

\* commit_history: the stop flag is set and the thread joined; the worker
\* leaves its polling loop, writes what is queued and exits, which drops
\* the receiving end of the channel
HCommitHistory ==
    /\ hist.bg_handle
    /\ HCalled("commit_history", <<>>, None, <<>>, None,
               [hist EXCEPT !.bg_stop = TRUE, !.bg_handle = FALSE,
                            !.channel = <<>>, !.receiver = FALSE],
               drain(hist.channel, hist.max_file_size, disk))

\* one round of the worker's polling loop that receives a message
WorkerWrite ==
    /\ hist.receiver
    /\ ~hist.bg_stop
    /\ hist.channel # <<>>
    /\ bytecount_count(write_to_disk(hist.max_file_size, Head(hist.channel).item, disk))
          <= MaxFileLines
    /\ hist' = [hist EXCEPT !.channel = Tail(hist.channel)]
    /\ disk' = write_to_disk(hist.max_file_size, Head(hist.channel).item, disk)
    /\ h_op' = [NoCall EXCEPT !.name = "write_to_disk"]
    /\ UNCHANGED <<h_run, bvars, evars, cvars, wvars>>

NextHistory ==
    \/ HPush
    \/ HGetNewestMatch
    \/ HSetFileName
    \/ HSetMaxSize
    \/ HSetMaxFileSize
    \/ HSetAppendDuplicates
    \/ HLoadHistory
    \/ HCommitHistory
    \/ WorkerWrite

SpecHistory == InitHistory /\ [][NextHistory]_vars

(***************************************************************************)
(* The read_line specification: sessions of Context::read_line, one key of *)
(* stdin at a time, on either keymap.                                      *)
(***************************************************************************)
Editor_new_with_init_buffer(h, completer, buffer) ==
    LET ed == Editor_new_fields(h, completer, buffer)
    IN  Editor_display(IF ~is_empty(ed.new_buf) THEN move_cursor_to_end_of_line(ed)
                       ELSE ed)

KeyMap_new(kind, ed) == IF kind = "Emacs" THEN Emacs_new(ed) ELSE Vi_new(ed)

\* the keys stdin delivers
Keys ==
    {KChar(c) : c \in {"a", " ", "d", "x", "i", "u", "0", "2", NL, "\t", "\\"}}
        \cup {KEsc, KLeft, KRight, KUp, KDown, KHome, KEnd, KBackspace, KDelete, KNull}
        \cup {KCtrl(c) : c \in {"c", "d", "f", "h", "r", "x", "w"}}
        \cup {KAlt(c) : c \in {".", "r", "b"}}

\* the texts of the history entries and of the initial buffer of a session
SessionHistories == {<<>>, <<<<"a">>>>, <<<<"a", " ">>, <<"a">>>>}

InitBuffers == {<<>>, <<"a">>}

Completer == Some(<<<<"a">>, <<"a", "a">>>>)

\* every buffer of the Editor fits the bound on the text
Fits(ed) ==
    /\ Len(ed.new_buf.data) <= MaxText
    /\ \A i \in 1..Len(ed.hist) : Len(ed.hist[i].data) <= MaxText

InitEditor ==
    /\ BufferIdle
    /\ HistoryIdle
    /\ CallIdle
    /\ WorkerIdle
    /\ \E kind \in {"Emacs", "Vi"}, texts \in SessionHistories, text \in InitBuffers :
          LET h == [i \in 1..Len(texts) |-> Buffer_from(texts[i])]
          IN  /\ km = KeyMap_new(kind, Editor_new_with_init_buffer(h, Completer,
                                                                   Buffer_from(text)))
              /\ sess = [NoSession EXCEPT !.phase = "keys", !.start = texts, !.k = 1]

\* the Tab keys in a row that end with key
tabs_after(s, key) == IF key = KChar("\t") THEN Min(s.tabs + 1, 2) ELSE 0

\* the session after handle_key returned r for key
after_key(s, r, key) ==
    IF r.km.ed.panicked
    THEN [s EXCEPT !.phase = "panicked", !.n = @ + 1, !.keys = @ + 1,
                   !.tabs = tabs_after(s, key), !.out = r.out]
    ELSE IF r.done \/ r.err # ""
    THEN [s EXCEPT !.phase = "returned", !.n = @ + 1, !.keys = @ + 1,
                   !.line = IF r.err = "" THEN String_from(r.km) ELSE <<>>,
                   !.err = r.err,
                   !.after = revert_all_history(r.km.ed.hist),
                   !.tabs = tabs_after(s, key), !.out = r.out]
    ELSE [s EXCEPT !.n = @ + 1, !.keys = @ + 1,
                   !.tabs = tabs_after(s, key), !.out = r.out]

\* one key from stdin reaches handle_key; when that returns true or an error
\* read_line converts the keymap into the line, reverts the history and
\* returns
HandleKey(key) ==
    /\ sess.phase = "keys"
    /\ sess.keys < MaxKeys
    /\ \E r \in {handle_key(km, key)} :
          /\ Fits(r.km.ed)
          /\ km' = r.km
          /\ sess' = after_key(sess, r, key)
    /\ UNCHANGED <<bvars, hvars, cvars, wvars>>

\* stdin ends: the loop over the keys ends and read_line returns the line
StdinEnds ==
    /\ sess.phase = "keys"
    /\ sess' = [sess EXCEPT !.phase = "returned", !.line = String_from(km),
                            !.after = revert_all_history(km.ed.hist)]
    /\ UNCHANGED <<km, bvars, hvars, cvars, wvars>>

\* the host calls read_line again on the history the last session left
ReadLine(kind, text) ==
    /\ sess.phase = "returned"
    /\ sess.k < MaxSessions
    /\ km' = KeyMap_new(kind, Editor_new_with_init_buffer(sess.after, Completer,
                                                          Buffer_from(text)))
    /\ sess' = [NoSession EXCEPT !.phase = "keys", !.start = Texts(sess.after),
                                 !.k = sess.k + 1, !.keys = sess.keys]
    /\ UNCHANGED <<bvars, hvars, cvars, wvars>>

NextEditor ==
    \/ \E key \in Keys : HandleKey(key)
    \/ StdinEnds
    \/ \E kind \in {"Emacs", "Vi"}, text \in InitBuffers : ReadLine(kind, text)

SpecEditor == InitEditor /\ [][NextEditor]_vars

(***************************************************************************)
(* The Vi specification: one read_line session on the Vi keymap, one key   *)
(* of stdin at a time, with the keys of the Vi commands.                   *)
(***************************************************************************)
\* the keys stdin delivers
ViKeys ==
    {KChar(c) : c \in {"a", "i", "x", "r", "d", "c", "~", ".", "l", "f", "g", "u", "2"}}
        \cup {KEsc, KLeft, KUp}

\* the texts of the initial buffer
ViTexts == {<<>>, <<"a", "b">>, <<"a", " ", "B", "c">>, <<"c", "c", "c", "c">>}

\* the texts of the history entries
ViHistory == <<<<"a">>>>

\* every buffer of the Editor fits the bound on the text
FitsVi(ed) ==
    /\ Len(ed.new_buf.data) <= MaxViText
    /\ \A i \in 1..Len(ed.hist) : Len(ed.hist[i].data) <= MaxViText

InitVi ==
    /\ BufferIdle
    /\ HistoryIdle
    /\ CallIdle
    /\ WorkerIdle
    /\ \E text \in ViTexts :
          LET h == [i \in 1..Len(ViHistory) |-> Buffer_from(ViHistory[i])]
          IN  /\ km = Vi_new(Editor_new_with_init_buffer(h, None, Buffer_from(text)))
              /\ sess = [NoSession EXCEPT !.phase = "keys", !.start = ViHistory, !.k = 1]

\* one key from stdin reaches handle_key
ViKey(key) ==
    /\ sess.phase = "keys"
    /\ sess.keys < MaxViKeys
    /\ \E r \in {handle_key(km, key)} :
          /\ FitsVi(r.km.ed)
          /\ km' = r.km
          /\ sess' = after_key(sess, r, key)
    /\ UNCHANGED <<bvars, hvars, cvars, wvars>>

NextVi == \E key \in ViKeys : ViKey(key)

SpecVi == InitVi /\ [][NextVi]_vars

(***************************************************************************)
(* The count specification: the count fields of the Vi keymap while digit  *)
(* keys, the operator d and the movement l are typed in Normal mode, with  *)
(* counts of as many digits as the u32 holds.  The state is in call.ret:   *)
(* mode, count and secondary_count are the fields of Vi, ran is the key    *)
(* and the count of the movement the last key executed (None when it       *)
(* executed none), typed are the digit keys of the count being typed       *)
(* (a 0 typed before any other digit is not one of them), typed_op those   *)
(* of the count typed before the pending d, before holds mode, count,      *)
(* typed and typed_op as they were when the last key arrived, and n counts *)
(* the keys.                                                               *)
(***************************************************************************)
count_new ==
    [mode |-> "Normal", count |-> <<>>, secondary_count |-> <<>>, ran |-> None,
     typed |-> <<>>, typed_op |-> <<>>,
     before |-> [mode |-> "Normal", count |-> <<>>, typed |-> <<>>, typed_op |-> <<>>],
     n |-> 0]

\* move_count
count_move_count(s) == IF s.count = <<>> THEN BigFromInt(1) ELSE s.count

\* a movement of handle_key_normal and the pop_mode_after_movement after it
count_moved(s, key) ==
    [s EXCEPT !.ran = Some(<<key, count_move_count(s)>>), !.mode = "Normal",
              !.count = <<>>,
              !.secondary_count = IF s.mode = "Delete" THEN <<>> ELSE @]

\* handle_key_normal for the digits, d and l
count_key_normal(s, key) ==
    CASE key = KChar("d") ->
            [s EXCEPT !.mode = "Delete", !.secondary_count = s.count, !.count = <<>>,
                      !.ran = None]
      [] key = KChar("l") -> count_moved(s, key)
      [] key = KChar("0") /\ s.count = <<>> -> count_moved(s, key)
      [] OTHER -> [s EXCEPT !.count = count_digit(s.count, key.c), !.ran = None]

\* handle_key_delete_or_change for the digits, d and l
count_key_delete(s, key) ==
    CASE is_movement_key(key) \/ (key = KChar("0") /\ s.count = <<>>) ->
            count_key_normal([s EXCEPT !.count = delete_count(s.count, s.secondary_count)],
                             key)
      [] key = KChar("d") ->
            [s EXCEPT !.mode = "Normal", !.count = <<>>, !.secondary_count = <<>>,
                      !.ran = None]
      [] OTHER -> count_key_normal(s, key)

\* handle_key_core, and the digit keys typed
count_key(s, key) ==
    LET s1 == IF s.mode = "Delete" THEN count_key_delete(s, key)
              ELSE count_key_normal(s, key)
    IN  [s1 EXCEPT !.typed = IF key.c \notin Range(DigitSeq) THEN <<>>
                             ELSE IF key.c = "0" /\ s.typed = <<>> THEN <<>>
                             ELSE Append(s.typed, key.c),
                   !.typed_op = IF s1.mode # "Delete" THEN <<>>
                                ELSE IF s.mode = "Normal" THEN s.typed
                                ELSE s.typed_op,
                   !.before = [mode |-> s.mode, count |-> s.count, typed |-> s.typed,
                               typed_op |-> s.typed_op]]

RECURSIVE count_keys(_, _)
count_keys(s, keys) ==
    IF keys = <<>> THEN s ELSE count_keys(count_key(s, Head(keys)), Tail(keys))

\* the keys typed before the first key of the specification
CountPrefixes ==
    {<<>>,
     <<"4", "2", "9", "4", "9", "6", "7", "2", "9">>,
     <<"2", "d">>,
     <<"6", "5", "5", "3", "6", "d", "6", "5", "5", "3">>}

CountKeys == {KChar(c) : c \in Range(DigitSeq) \cup {"d", "l"}}

InitCount ==
    /\ BufferIdle
    /\ HistoryIdle
    /\ EditorIdle
    /\ WorkerIdle
    /\ \E prefix \in CountPrefixes :
          call = [fn |-> "count", args |-> prefix,
                  ret |-> count_keys(count_new, [i \in 1..Len(prefix) |-> KChar(prefix[i])])]

\* one more key is typed
CountKey(key) ==
    /\ call.fn = "count"
    /\ call.ret.n < MaxCountKeys
    /\ call' = [call EXCEPT !.args = Append(@, key.c),
                            !.ret = [count_key(call.ret, key) EXCEPT !.n = call.ret.n + 1]]
    /\ UNCHANGED <<bvars, hvars, evars, wvars>>

NextCount == \E key \in CountKeys : CountKey(key)

SpecCount == InitCount /\ [][NextCount]_vars

(***************************************************************************)
(* The worker specification: one History whose worker thread takes its     *)
(* steps one at a time between the calls of the foreground, which pushes,  *)
(* sets the file name, commits and in the end may drop the History.        *)
(***************************************************************************)
InitWorker ==
    /\ HistoryIdle
    /\ wk = WorkerNew
    /\ BufferIdle
    /\ EditorIdle
    /\ CallIdle

\* the foreground returned from a call that left the History as h
Foreground(name, h, sent) ==
    /\ wk.fg = "idle"
    /\ hist' = h
    /\ wk' = [wk EXCEPT !.last = name, !.sent = sent,
                        !.pushes = IF name = "push" THEN @ + 1 ELSE @]
    /\ UNCHANGED <<disk, h_op, h_run, bvars, evars, cvars>>

WPush ==
    /\ wk.pushes < MaxPushes
    /\ \E item \in HistTexts :
          Foreground("push", History_push(hist, Buffer_from(item)),
                     IF hist.file_name # None THEN Append(wk.sent, item) ELSE wk.sent)

WSetFileName ==
    \E name \in {None, Some(HistFileName)} :
       /\ name # hist.file_name
       /\ Foreground("set_file_name", set_file_name(hist, name), wk.sent)

\* commit_history up to handle.join(): the stop flag is stored and the
\* handle taken; without a handle the call returns at once
WCommitCall ==
    /\ wk.fg = "idle"
    /\ wk.commits < MaxCommits
    /\ hist' = [hist EXCEPT !.bg_stop = TRUE, !.bg_handle = FALSE]
    /\ wk' = IF hist.bg_handle THEN [wk EXCEPT !.fg = "join"]
             ELSE [wk EXCEPT !.last = "commit_history", !.commits = @ + 1]
    /\ UNCHANGED <<disk, h_op, h_run, bvars, evars, cvars>>

\* handle.join() returns once the thread has exited
WCommitReturn ==
    /\ wk.fg = "join"
    /\ wk.pc = "exited"
    /\ wk' = [wk EXCEPT !.fg = "idle", !.last = "commit_history", !.commits = @ + 1]
    /\ UNCHANGED <<hvars, bvars, evars, cvars>>

\* the History goes out of scope: History has no Drop, its fields are
\* dropped, which closes the sending end and detaches the thread
WDrop ==
    /\ wk.fg = "idle"
    /\ hist' = [hist EXCEPT !.bg_handle = FALSE]
    /\ wk' = [wk EXCEPT !.fg = "dropped", !.last = "drop"]
    /\ UNCHANGED <<disk, h_op, h_run, bvars, evars, cvars>>

WorkerStep ==
    /\ wk.pc # "exited"
    /\ \E r \in {worker_step(wk.pc, hist, disk)} :
          /\ hist' = r.h
          /\ disk' = r.file
          /\ wk' = [wk EXCEPT !.pc = r.pc, !.handed = @ \o r.got]
    /\ UNCHANGED <<h_op, h_run, bvars, evars, cvars>>

NextWorker ==
    \/ WPush
    \/ WSetFileName
    \/ WCommitCall
    \/ WCommitReturn
    \/ WDrop
    \/ WorkerStep

SpecWorker == InitWorker /\ [][NextWorker]_vars

\* the scheduler lets the worker thread run
SpecWorkerFair == SpecWorker /\ WF_vars(WorkerStep)

(***************************************************************************)
(* The starts_with specification: Buffer::starts_with is called on any two *)
(* buffers.                                                                *)
(***************************************************************************)
InitStartsWith ==
    /\ CallIdle
    /\ WorkerIdle
    /\ BufferIdle
    /\ HistoryIdle
    /\ EditorIdle

StartsWith ==
    /\ call.fn = ""
    /\ \E self \in SeqsUpTo(BufChars, MaxArg), other \in SeqsUpTo(BufChars, MaxArg) :
          call' = [fn |-> "starts_with", args |-> <<self, other>>,
                   ret |-> starts_with(Buffer_from(self), Buffer_from(other))]
    /\ UNCHANGED <<bvars, hvars, evars, wvars>>

NextStartsWith == StartsWith

SpecStartsWith == InitStartsWith /\ [][NextStartsWith]_vars

(***************************************************************************)
(* The write_to_disk specification: the worker writes one entry to a       *)
(* history file of whole lines, some of them longer than the 4096 bytes    *)
(* write_to_disk reads at a time.                                          *)
(***************************************************************************)
\* a line of ChunkSize bytes: its newline is the first byte of the next chunk
LongLine == [i \in 1..ChunkSize |-> "a"]

DiskTexts == {<<"a">>, <<"b", "c">>, LongLine}

\* the files of at most n whole lines
RECURSIVE DiskFiles(_)
DiskFiles(n) ==
    IF n = 0 THEN {<<>>}
    ELSE DiskFiles(n - 1)
         \cup {f \o t \o <<NL>> : f \in DiskFiles(n - 1), t \in DiskTexts}

InitWriteToDisk ==
    /\ CallIdle
    /\ BufferIdle
    /\ HistoryIdle
    /\ EditorIdle
    /\ WorkerIdle

\* args: max_file_size, the text of new_item, the file before the write;
\* ret: the file after it
WriteToDisk ==
    /\ call.fn = ""
    /\ \E max_file_size \in 0..MaxCap, text \in DiskTexts, file \in DiskFiles(MaxDiskLines) :
          call' = [fn |-> "write_to_disk", args |-> <<max_file_size, text, file>>,
                   ret |-> write_to_disk(max_file_size, Buffer_from(text), file)]
    /\ UNCHANGED <<bvars, hvars, evars, wvars>>

NextWriteToDisk == WriteToDisk

SpecWriteToDisk == InitWriteToDisk /\ [][NextWriteToDisk]_vars

(***************************************************************************)
(* editor.rs: the painting of _display.  What is written to the terminal   *)
(* is a sequence of steps: text of so many columns, "\r", "\r\n", and the  *)
(* cursor motions of termion.  clear::AfterCursor and the colours move     *)
(* nothing and are left out.  Every char is one byte and one column wide.  *)
(***************************************************************************)
TText(n) == [op |-> "Text", n |-> n]

TCr == [op |-> "Cr", n |-> 0]

TCrLf == [op |-> "CrLf", n |-> 0]

TUp(n) == [op |-> "Up", n |-> n]

TLeft(n) == [op |-> "Left", n |-> n]

TRight(n) == [op |-> "Right", n |-> n]

\* Buffer::lines: data.split('\n')
RECURSIVE Buffer_lines(_)
Buffer_lines(data) ==
    LET ends == {i \in 1..Len(data) : data[i] = NL}
    IN  IF ends = {} THEN <<data>>
        ELSE LET i == CHOOSE e \in ends : \A o \in ends : e <= o
             IN  <<SubSeq(data, 1, i - 1)>> \o Buffer_lines(SubSeq(data, i + 1, Len(data)))

\* Buffer::range_width
range_width(data, start, end) ==
    LET ls == Buffer_lines(SubSeq(data, start + 1, end))
    IN  [i \in 1..Len(ls) |-> Len(ls[i])]

\* Buffer::width
Buffer_width(data) == range_width(data, 0, Len(data))

\* calc_width, total being the total so far
RECURSIVE calc_width(_, _, _, _)
calc_width(prompt_width, buf_widths, terminal_width, total) ==
    IF buf_widths = <<>> THEN total
    ELSE calc_width(prompt_width, Tail(buf_widths), terminal_width,
                    (IF total % terminal_width # 0
                     THEN ((total \div terminal_width) + 1) * terminal_width
                     ELSE total) + prompt_width + Head(buf_widths))

\* the loop over the lines, from line i on (counted from 1)
RECURSIVE paint_lines(_, _, _)
paint_lines(ls, prompt_width, i) ==
    IF i > Len(ls) THEN <<>>
    ELSE (IF i > 1 THEN <<TRight(prompt_width)>> ELSE <<>>)
         \o <<TText(Len(ls[i]))>>
         \o (IF i < Len(ls) THEN <<TCrLf>> ELSE <<>>)
         \o paint_lines(ls, prompt_width, i + 1)

\* the end of _display: from the bottom line to the line and the column of
\* the cursor
to_cursor_steps(new_total_width, new_total_width_to_cursor, w) ==
    LET new_num_lines == (new_total_width + w) \div w
        term_cursor_line == (new_total_width_to_cursor + w) \div w
        cursor_line_diff == new_num_lines - term_cursor_line
        cursor_col_diff == new_total_width - new_total_width_to_cursor
                           - cursor_line_diff * w
    IN  [steps |-> (IF new_total_width % w = 0 THEN <<TCrLf>> ELSE <<>>)
                   \o (IF cursor_line_diff > 0 THEN <<TUp(cursor_line_diff)>> ELSE <<>>)
                   \o (IF cursor_col_diff > 0 THEN <<TLeft(cursor_col_diff)>>
                       ELSE IF cursor_col_diff < 0 THEN <<TRight(-cursor_col_diff)>>
                       ELSE <<>>),
         term_cursor_line |-> term_cursor_line,
         panicked |-> cursor_line_diff < 0]

\* _display(show_autosuggest) of the editor ed with a prompt of prompt_width
\* columns on a terminal of w columns, term_cursor_line being the line the
\* repaint before left the cursor on: the editor after the clamps of the
\* cursor, what is written, and the new term_cursor_line
paint(ed0, prompt_width, term_cursor_line, w, show_autosuggest) ==
    LET ed == Editor_display(ed0)
        data == cur_buf(ed).data
        suggestion == current_autosuggestion(ed)
        shown == IF suggestion # None THEN ed.hist[suggestion[1] + 1].data ELSE data
        end == to_cursor_steps(
                   calc_width(prompt_width, Buffer_width(shown), w, 0),
                   calc_width(prompt_width, range_width(shown, 0, ed.cursor), w, 0), w)
    IN  [ed |-> IF end.panicked THEN panic(ed) ELSE ed,
         out |-> (IF term_cursor_line > 1 THEN <<TUp(term_cursor_line - 1)>> ELSE <<>>)
                 \o <<TCr, TText(prompt_width)>>
                 \o paint_lines(Buffer_lines(IF show_autosuggest THEN shown ELSE data),
                                prompt_width, 1)
                 \o end.steps,
         term_cursor_line |-> end.term_cursor_line]

(***************************************************************************)
(* The terminal: w columns, the row counted from the row of the prompt,    *)
(* the column from 0.  A char written in the last column leaves the cursor *)
(* there with the wrap pending: the next char goes to the next row.  zero  *)
(* is how many columns the terminal moves for a motion with parameter 0.   *)
(***************************************************************************)
Term(row, col, pending) == [row |-> row, col |-> col, pending |-> pending]

RECURSIVE term_text(_, _, _)
term_text(t, n, w) ==
    IF n = 0 THEN t
    ELSE LET at == IF t.pending THEN Term(t.row + 1, 0, FALSE) ELSE t
         IN  term_text(IF at.col = w - 1 THEN Term(at.row, at.col, TRUE)
                       ELSE Term(at.row, at.col + 1, FALSE), n - 1, w)

term_step(t, s, w, zero) ==
    LET n == IF s.n = 0 THEN zero ELSE s.n
    IN  CASE s.op = "Text" -> term_text(t, s.n, w)
          [] s.op = "Cr" -> Term(t.row, 0, FALSE)
          [] s.op = "CrLf" -> Term(t.row + 1, 0, FALSE)
          [] s.op = "Up" -> Term(t.row - n, t.col, FALSE)
          [] s.op = "Left" -> Term(t.row, Max(t.col - n, 0), FALSE)
          [] s.op = "Right" -> Term(t.row, Min(t.col + n, w - 1), FALSE)

RECURSIVE term_run(_, _, _, _)
term_run(t, steps, w, zero) ==
    IF steps = <<>> THEN t
    ELSE term_run(term_step(t, Head(steps), w, zero), Tail(steps), w, zero)

\* where the next char would be written
term_position(t) == IF t.pending THEN <<t.row + 1, 0>> ELSE <<t.row, t.col>>

(***************************************************************************)
(* The display specification: _display is called once on any editor, with  *)
(* or without a history entry that the buffer begins, on any terminal.     *)
(***************************************************************************)
DisplayTexts == SeqsUpTo({"a", NL}, MaxDisplayText)

DisplayHistories ==
    {<<>>, <<<<"a", "a", "b">>>>, <<<<"a", NL, "b", "b">>>>, <<<<NL, "a", "b", "b", "b">>>>}

InitDisplay ==
    /\ CallIdle
    /\ BufferIdle
    /\ HistoryIdle
    /\ EditorIdle
    /\ WorkerIdle

\* args: the editor, the width of the prompt, term_cursor_line, the width of
\* the terminal, show_autosuggest and the columns the terminal moves for a
\* motion with parameter 0; ret: what paint returns
Display ==
    /\ call.fn = ""
    /\ \E text \in DisplayTexts, texts \in DisplayHistories, no_eol \in BOOLEAN,
          prompt_width \in 0..MaxPrompt, term_cursor_line \in 1..MaxTermLine,
          w \in 2..MaxTermWidth, show_autosuggest \in BOOLEAN, zero \in {0, 1} :
          \E cursor \in 0..Len(text) :
             \E ed \in {[Editor_new_fields([i \in 1..Len(texts) |-> Buffer_from(texts[i])],
                                           None, Buffer_from(text))
                             EXCEPT !.cursor = cursor, !.no_eol = no_eol]} :
                call' = [fn |-> "display",
                         args |-> <<ed, prompt_width, term_cursor_line, w,
                                    show_autosuggest, zero>>,
                         ret |-> paint(ed, prompt_width, term_cursor_line, w,
                                       show_autosuggest)]
    /\ UNCHANGED <<bvars, hvars, evars, wvars>>

NextDisplay == Display

SpecDisplay == InitDisplay /\ [][NextDisplay]_vars

(***************************************************************************)
(* The words specification: get_buffer_words is called once on any buffer  *)
(* of letters, spaces and backslashes.                                     *)
(***************************************************************************)
WordChars == {"a", " ", "\\"}

InitWords ==
    /\ CallIdle
    /\ BufferIdle
    /\ HistoryIdle
    /\ EditorIdle
    /\ WorkerIdle

\* args: the text of the buffer; ret: the ranges returned
Words ==
    /\ call.fn = ""
    /\ \E text \in SeqsUpTo(WordChars, MaxWordsText) :
          call' = [fn |-> "get_buffer_words", args |-> <<text>>,
                   ret |-> get_buffer_words(Buffer_from(text))]
    /\ UNCHANGED <<bvars, hvars, evars, wvars>>

NextWords == Words

SpecWords == InitWords /\ [][NextWords]_vars

(***************************************************************************)
(* Claims about the Buffer.                                                *)
(***************************************************************************)

\* C1: undo round trip.  After n insert / remove / truncate calls with valid
\* offsets and no group markers, followed by n undo calls, the text of the
\* buffer is the text it was built from.
C1_UndoRoundTrip == (rt.pure /\ rt.u = rt.n) => buf.data = rt.init

\* two mutations, an insert and a remove that each changed a non-empty
\* initial text, have both been undone
C1_Witness ==
    /\ rt.pure /\ rt.n = 2 /\ rt.u = 2 /\ rt.init # <<>>
    /\ b_op = "undo"
    /\ Len(buf.undone_actions) = 2
    /\ \E i, j \in 1..2 :
          /\ buf.undone_actions[i].type = "Insert"
          /\ buf.undone_actions[j].type = "Remove"
          /\ buf.undone_actions[i].text # <<>>
          /\ buf.undone_actions[j].text # <<>>

\* C2: undo / redo symmetry.  In every reachable state of the buffer, when
\* undo returned true, a redo called right after it leaves the text as it
\* was before that undo.
C2_UndoRedoSymmetry ==
    [][(b_op = "undo" /\ b_did /\ b_op' = "redo") => buf'.data = b_pre]_vars

\* the index in acts of the StartGroup that matches the EndGroup at i, with
\* depth groups open above i; 0 when there is none
RECURSIVE GroupStart(_, _, _)
GroupStart(acts, i, depth) ==
    IF i = 0 THEN 0
    ELSE LET d == CASE acts[i].type = "EndGroup" -> depth + 1
                    [] acts[i].type = "StartGroup" -> depth - 1
                    [] OTHER -> depth
         IN  IF d = 0 THEN i ELSE GroupStart(acts, i - 1, d)

\* where the balanced StartGroup..EndGroup span on top of the undo stack
\* starts; 0 when the top of the stack is no such span
TopSpanStart(acts) ==
    IF acts # <<>> /\ Last(acts).type = "EndGroup"
    THEN GroupStart(acts, Len(acts), 0)
    ELSE 0

\* the text with the actions acts[j..i] inverted, the newest first
RECURSIVE InvertSpan(_, _, _, _)
InvertSpan(data, acts, j, i) ==
    IF i < j THEN data ELSE InvertSpan(Action_undo(acts[i], data), acts, j, i - 1)

\* C3: group atomicity.  When the top of the undo stack is a balanced
\* (possibly nested) StartGroup..EndGroup span that holds a mutation, one
\* undo pops exactly that span: it inverts every mutation inside it and
\* nothing outside it; and an undo that finds a mutation on the stack
\* undoes at least one (empty groups are skipped).
C3_GroupAtomicity ==
    [][b_op' = "undo" =>
         LET acts == buf.actions
             j == TopSpanStart(acts)
         IN  /\ (j > 0 /\ \E i \in j..Len(acts) : ~IsMarker(acts[i])) =>
                   /\ buf'.actions = SubSeq(acts, 1, j - 1)
                   /\ buf'.data = InvertSpan(buf.data, acts, j, Len(acts))
             /\ (\E i \in 1..Len(acts) : ~IsMarker(acts[i])) =>
                   \E i \in 1..Len(buf'.undone_actions) :
                       ~IsMarker(buf'.undone_actions[i])
    ]_vars

\* C4, as written: after insert, remove or truncate the redo stack is empty
\* (a redo then returns false and changes nothing); the group markers leave
\* the redo stack as it was; only undo and redo leave it non-empty.
C4_RedoStackOriginal ==
    [][/\ b_op' \in MutationOps =>
            /\ buf'.undone_actions = <<>>
            /\ Buffer_redo(buf') = [buf |-> buf', did |-> FALSE]
       /\ b_op' \in MarkerOps => buf'.undone_actions = buf.undone_actions
       /\ b_op' \notin {"undo", "redo"} \cup MarkerOps => buf'.undone_actions = <<>>
    ]_vars

\* C4, amended: as C4, with revert (which is undo, repeated) named beside
\* undo and redo as a call that may leave the redo stack non-empty.
C4_RedoStack ==
    [][/\ b_op' \in MutationOps =>
            /\ buf'.undone_actions = <<>>
            /\ Buffer_redo(buf') = [buf |-> buf', did |-> FALSE]
       /\ b_op' \in MarkerOps => buf'.undone_actions = buf.undone_actions
       /\ b_op' \notin {"undo", "redo", "revert"} \cup MarkerOps =>
            buf'.undone_actions = <<>>
    ]_vars

\* a group marker was pushed while the redo stack held an undone mutation,
\* which is still there
C4_Witness ==
    /\ b_op \in MarkerOps
    /\ buf.undone_actions # <<>>
    /\ ~IsMarker(Last(buf.undone_actions))


(***************************************************************************)
(* Claims about the History.                                               *)
(***************************************************************************)
\* the texts of the entries of a deque
\* the last n elements of a sequence
LastN(s, n) == SubSeq(s, Len(s) - Min(n, Len(s)) + 1, Len(s))

\* C7: history bound.  After every push the number of in-memory entries is
\* at most max_size, whatever calls (load_history, set_max_size, pushes of
\* duplicate entries) came before it.
C7_HistoryBound == h_op.name = "push" => Len(hist.buffers) <= hist.max_size

\* C8: push is FIFO.  Starting from an empty History with cap max_size,
\* after pushing e1..en, no two consecutive ones equal, the deque holds
\* exactly the last min(n, max_size) of them in push order, the oldest at
\* index 0 and the newest at the back.
C8_PushFifo ==
    h_run.pure =>
        Texts(hist.buffers)
            = LastN(h_run.pushed, Min(Len(h_run.pushed), hist.max_size))

C8_Witness ==
    /\ h_run.pure
    /\ h_op.name = "push"
    /\ Len(h_run.pushed) = 3
    /\ hist.max_size = 2
    /\ Len(hist.buffers) = 2

\* a push of an entry whose text equals the back entry of the deque
DuplicatePush ==
    /\ h_op'.name = "push"
    /\ hist.buffers # <<>>
    /\ Last(hist.buffers).data = h_op'.item

C10_NewestMatch ==
    h_op.name = "get_newest_match" =>
        LET bound == IF h_op.k = None THEN Len(hist.buffers) ELSE h_op.k[1]
            found == {i \in 0..(Len(hist.buffers) - 1) :
                         /\ i < bound
                         /\ starts_with(hist.buffers[i + 1], Buffer_from(h_op.p))}
        IN  IF found = {} THEN h_op.ret = None
            ELSE /\ h_op.ret # None
                 /\ h_op.ret[1] \in found
                 /\ \A i \in found : i <= h_op.ret[1]

\* two entries match, the bound is past the end, the newer one is returned
C10_Witness ==
    /\ h_op.name = "get_newest_match"
    /\ Len(hist.buffers) = 2
    /\ h_op.k = Some(3)
    /\ h_op.p = <<"a">>
    /\ starts_with(hist.buffers[1], Buffer_from(h_op.p))
    /\ h_op.ret = Some(1)

(***************************************************************************)
(* Claims about read_line sessions.                                        *)
(***************************************************************************)
\* C5: cursor bounds.  After every key the dispatcher has handled, on either
\* keymap, for any keys and any history, the cursor is at most the length of
\* the current buffer, and while no_eol is set it is at most
\* max(0, length - 1).
C5_CursorBounds ==
    (sess.phase \in {"keys", "returned"} /\ sess.n > 0) =>
        LET len == num_chars(cur_buf(km.ed))
        IN  /\ 0 <= km.ed.cursor
            /\ km.ed.cursor <= len
            /\ (km.ed.no_eol => km.ed.cursor <= Max(0, len - 1))

\* C6: history restored on return.  When read_line returns (a committed
\* line, an interrupt or an end of file) every history entry has the text it
\* had when the session began, in the same order and number, and a committed
\* line is the text of the buffer as the keys left it, edits included.
C6_HistoryRestored ==
    sess.phase = "returned" =>
        /\ Texts(sess.after) = sess.start
        /\ (sess.err = "" => sess.line = cur_buf(km.ed).data)

\* a line was committed from a history entry that the keys had edited
C6_Witness ==
    /\ sess.phase = "returned"
    /\ sess.err = ""
    /\ km.ed.cur_history_loc # None
    /\ Texts(km.ed.hist) # sess.start
    /\ sess.line # sess.start[km.ed.cur_history_loc[1] + 1]

(***************************************************************************)
(* Claims about the worker thread.                                         *)
(***************************************************************************)
IsPrefix(s, t) == Len(s) <= Len(t) /\ SubSeq(t, 1, Len(s)) = s

C13_WorkerLifetime ==
    (hist.bg_stop \/ wk.fg = "dropped") ~> (wk.pc = "exited")

(***************************************************************************)
(* Claims about functions called on their own.                             *)
(***************************************************************************)
\* self has more code points than other and begins with those of other
StrictlyExtends(self, other) ==
    /\ Len(self) > Len(other)
    /\ SubSeq(self, 1, Len(other)) = other

\* C11 as stated: starts_with(other) returns true if and only if self is
\* strictly longer than other and the first other.len code points of self
\* equal other, for every pair of buffers, an empty other included.
C11_StartsWithOriginal ==
    call.fn = "starts_with" =>
        (call.ret <=> StrictlyExtends(call.args[1], call.args[2]))

\* C11: starts_with(other) returns true if and only if other is not empty,
\* self is strictly longer than other and the first other.len code points of
\* self equal other; for an empty other it returns false.
C11_StartsWith ==
    call.fn = "starts_with" =>
        (call.ret <=> (call.args[2] # <<>> /\ StrictlyExtends(call.args[1], call.args[2])))

\* a buffer of three code points starts with its first two
C11_Witness ==
    /\ call.fn = "starts_with"
    /\ Len(call.args[1]) = 3
    /\ Len(call.args[2]) = 2
    /\ call.ret

\* C14: file cap.  After a write the history file holds at most N_file
\* entries: if it held count >= N_file entries before, the oldest
\* count - N_file + 1 whole lines are gone, the remaining lines keep their
\* order and the new entry is the last line (below the cap the entry is
\* appended); for every file size, files of several 4 KiB chunks included.
\* It is stated here for every N_file >= 1: with N_file = 0 no file whose
\* last line is the new entry holds at most N_file entries.
C14_FileCap ==
    (call.fn = "write_to_disk" /\ call.args[1] >= 1) =>
        LET N_file == call.args[1]
            before == lines(call.args[3])
            count == Len(before)
            after == lines(call.ret)
        IN  /\ Len(after) <= N_file
            /\ after = (IF count >= N_file
                        THEN SubSeq(before, count - N_file + 2, count)
                        ELSE before) \o <<call.args[2]>>

(***************************************************************************)
(* Claims about the dispatcher.  They are stated of the key handled in     *)
(* every state a session reaches while it reads keys.                      *)
(***************************************************************************)
\* handle_key returned r for Ctrl-c in the keymap km0
CtrlCInterrupts(km0, r) ==
    /\ r.err = "Interrupted"
    /\ CRLF \in Range(r.out)
    /\ String_from(r.km) = String_from(km0)

\* C15: Ctrl-c in any editor state (any text, cursor and keymap mode) makes
\* handle_key return the Interrupted error after it wrote CRLF to the
\* output, and leaves the text of the current buffer unchanged.
C15_CtrlC ==
    sess.phase = "keys" => CtrlCInterrupts(km, handle_key(km, KCtrl("c")))

\* handle_key returned r for Ctrl-d in the keymap km0
CtrlDEof(km0, r) ==
    IF is_empty(cur_buf(km0.ed))
    THEN r.err = "UnexpectedEof"
    ELSE /\ r.err = ""
         /\ ~r.km.ed.panicked
         /\ r.km = after_core(handle_key_core(km0, KCtrl("d")))

\* C16: Ctrl-d returns the UnexpectedEof error if and only if the current
\* buffer is empty when the key arrives; on a non-empty buffer the key goes
\* to handle_key_core of the active keymap and handle_key returns Ok.
C16_CtrlD ==
    sess.phase = "keys" => CtrlDEof(km, handle_key(km, KCtrl("d")))

\* a session ended with the end-of-input error on a buffer that the keys
\* before had filled and emptied again
C16_Witness ==
    /\ sess.phase = "returned"
    /\ sess.err = "UnexpectedEof"
    /\ sess.n >= 3
    /\ cur_buf(km.ed).actions # <<>>

\* the end of the line is where the display leaves a cursor put at the end
EndOfLine(ed, clamped) ==
    LET len == num_chars(cur_buf(ed))
    IN  IF clamped /\ ed.no_eol /\ len >= 1 THEN len - 1 ELSE len

\* handle_newline returned r in the editor ed0
EnterNewline(ed0, r, clamped) ==
    LET data == cur_buf(ed0).data
    IN  IF ed0.cursor >= 1 /\ data[ed0.cursor] = "\\"
        THEN /\ cur_buf(r.ed).data = SubSeq(data, 1, ed0.cursor) \o <<NL>>
                                        \o SubSeq(data, ed0.cursor + 1, Len(data))
             /\ ~r.done
        ELSE /\ cur_buf(r.ed).data = data
             /\ r.ed.cursor = EndOfLine(ed0, clamped)
             /\ ~r.ed.show_completions_hint
             /\ r.done

\* C17 as stated: if the code point before the cursor is a backslash,
\* handle_newline inserts a newline at the cursor and the line is not done;
\* otherwise the text is unchanged, the cursor moves to the end of the
\* buffer, the completion hint latch is cleared and the line is done.
C17_EnterOriginal ==
    sess.phase = "keys" => EnterNewline(km.ed, handle_newline(km.ed), FALSE)

\* C17: as stated, except that while no_eol is set (Vi normal mode) the
\* cursor of a non-empty buffer is left on the last code point, one before
\* the end.
C17_Enter ==
    sess.phase = "keys" => EnterNewline(km.ed, handle_newline(km.ed), TRUE)

\* Enter ended a Vi session in normal mode on a line of two code points,
\* the cursor left on the last of them
C17_Witness ==
    /\ sess.phase = "returned"
    /\ sess.err = ""
    /\ CRLF \in Range(sess.out)
    /\ km.ed.no_eol
    /\ Len(sess.line) = 2
    /\ km.ed.cursor = 1

\* C18: hint latch.  The candidate list is printed only by a Tab that comes
\* right after another Tab, which set the latch; every other key handled in
\* between, those the dispatcher serves itself (Enter, accepting an
\* autosuggestion) included, clears the latch; and printing clears it.
C18_HintLatch ==
    (sess.phase \in {"keys", "returned"} /\ sess.n > 0) =>
        /\ CompletionList \in Range(sess.out) => sess.tabs = 2
        /\ CompletionList \in Range(sess.out) => ~km.ed.show_completions_hint
        /\ sess.tabs = 0 => ~km.ed.show_completions_hint

\* complete returned r in the editor ed0, whose completer has exactly one
\* candidate for the word at the cursor, of the range wr
ReplacesWord(ed0, r, wr, candidate) ==
    LET data == cur_buf(ed0).data
    IN  /\ cur_buf(r.ed).data = SubSeq(data, 1, wr[1]) \o candidate
                                    \o SubSeq(data, wr[2] + 1, Len(data))
        /\ r.ed.cursor = wr[1] + Len(candidate)
        /\ ~r.ed.show_completions_hint

\* the candidates of the completer for the word of the range wr
Candidates(ed0, wr) ==
    sort_dedup(BasicCompleter_completions(ed0.completer[1],
                   range_chars(cur_buf(ed0), wr[1], wr[2])))

CompletesOne(ed0, wr) ==
    (wr # None /\ Len(Candidates(ed0, wr[1])) = 1) =>
        ReplacesWord(ed0, complete(ed0), wr[1], Candidates(ed0, wr[1])[1])

\* C19: completion with exactly one candidate replaces the whole word the
\* completer was asked about: for every cursor position inside the word or on
\* its right edge, afterwards the text is the old text with the word's full
\* range replaced by the candidate, the cursor is just after the candidate
\* and the hint latch is clear.
C19_CompleteOne ==
    sess.phase = "keys" => CompletesOne(km.ed, get_word_before_cursor(km.ed, FALSE))

\* accept_autosuggestion left ed1 in the editor ed0, in which the history
\* entry of index i was suggested
AcceptsSuggestion(ed0, ed1, i) ==
    /\ cur_buf(ed1).data = ed0.hist[i + 1].data
    /\ ed1.cursor = EndOfLine(ed1, TRUE)
    /\ ed1.hist[i + 1] = ed0.hist[i + 1]
    /\ Buffer_undo(cur_buf(ed1)).buf.data = cur_buf(ed0).data

Accepts(ed0, suggestion) ==
    suggestion # None => AcceptsSuggestion(ed0, accept_autosuggestion(ed0), suggestion[1])

\* C20: whenever a suggestion exists, after accept_autosuggestion the text
\* of the current buffer is the text of the suggested history entry, the
\* cursor is at the end of the line (on the last code point while no_eol is
\* set), the suggested entry is unchanged and one undo restores the text
\* there was before.
C20_AcceptSuggestion ==
    sess.phase = "keys" => Accepts(km.ed, current_autosuggestion(km.ed))

\* in Vi normal mode a suggestion was accepted: its tail is the last edit of
\* the buffer and the cursor is on the last code point
C20_Witness ==
    /\ sess.phase = "keys"
    /\ km.kind = "Vi"
    /\ km.ed.no_eol
    /\ km.ed.cur_history_loc = None
    /\ km.ed.new_buf.data = <<"a", " ">>
    /\ km.ed.new_buf.actions # <<>>
    /\ Last(km.ed.new_buf.actions) = Insert(1, <<" ">>)
    /\ km.ed.cursor = 1
    /\ \E i \in 1..Len(km.ed.hist) : km.ed.hist[i].data = <<"a", " ">>

\* handle_key returned r for key, which is Ctrl-f or Right, in the keymap km0
AcceptsOrDelegates(km0, key, r) ==
    IF is_currently_showing_autosuggestion(km0.ed) /\ cursor_is_at_end_of_line(km0.ed)
    THEN r.km = [km0 EXCEPT !.ed = accept_autosuggestion(km0.ed)]
    ELSE r.km = after_core(handle_key_core(km0, key))

\* C21: the dispatcher accepts the autosuggestion on Ctrl-f or Right only
\* when a suggestion is shown and the cursor is at the end of the line; in
\* every other state the key goes to handle_key_core of the active keymap.
C21_AcceptKeys ==
    sess.phase = "keys" =>
        \A key \in {KCtrl("f"), KRight} : AcceptsOrDelegates(km, key, handle_key(km, key))

(***************************************************************************)
(* Claims about the Vi keymap.                                             *)
(***************************************************************************)
OperatorPending == {"Delete", "MoveToChar", "G", "Replace"}

\* C22 as stated: no_eol is set whenever the mode is Normal or an
\* operator-pending mode (Delete, MoveToChar, G, Replace) and clear whenever
\* the mode is Insert.
C22_NoEolOriginal ==
    sess.phase = "keys" =>
        /\ Vi_mode(km).m \in {"Normal"} \cup OperatorPending => km.ed.no_eol
        /\ Vi_mode(km).m = "Insert" => ~km.ed.no_eol

\* C22: between two keys of a Vi session no_eol is set if and only if the
\* mode is Normal; in Insert and in every operator-pending mode (Delete,
\* MoveToChar, G, Replace) it is clear.
C22_NoEol ==
    sess.phase = "keys" => (km.ed.no_eol <=> Vi_mode(km) = Normal)

\* after Esc a key of Normal mode has begun a command that waits for its
\* next key, and no_eol is clear
C22_Witness ==
    /\ sess.phase = "keys"
    /\ Vi_mode(km).m \in OperatorPending
    /\ ~km.ed.no_eol
    /\ sess.n >= 2

\* the StartGroup markers of a journal that no later EndGroup closes
RECURSIVE OpenGroups(_, _, _)
OpenGroups(acts, i, depth) ==
    IF i > Len(acts) THEN depth
    ELSE IF acts[i] = StartGroup THEN OpenGroups(acts, i + 1, depth + 1)
    ELSE IF acts[i] = EndGroup THEN OpenGroups(acts, i + 1, Max(depth - 1, 0))
    ELSE OpenGroups(acts, i + 1, depth)

\* C23: Vi undo groups are balanced.  Every StartGroup pushed on entering
\* Insert or Tilde is matched by an EndGroup when the mode is left by any
\* path (Esc, an operator completing, an abort back to Normal such as c
\* followed by Esc): whenever the keymap is in Normal mode the undo stack of
\* the current buffer has no unclosed StartGroup.
C23_GroupsBalanced ==
    (sess.phase = "keys" /\ Vi_mode(km) = Normal) =>
        OpenGroups(cur_buf(km.ed).actions, 1, 0) = 0

(***************************************************************************)
(* Claims about the Vi counts.                                             *)
(***************************************************************************)
\* the number a sequence of at most four digit keys writes
RECURSIVE GroupValue(_)
GroupValue(digits) ==
    IF digits = <<>> THEN 0 ELSE 10 * GroupValue(Front(digits)) + to_digit(Last(digits))

\* the decimal value of digit keys, the first of which is not 0
RECURSIVE DecimalValue(_)
DecimalValue(digits) ==
    IF digits = <<>> THEN <<>>
    ELSE LET k == Min(4, Len(digits))
         IN  <<GroupValue(SubSeq(digits, Len(digits) - k + 1, Len(digits)))>>
                 \o DecimalValue(SubSeq(digits, 1, Len(digits) - k))

\* a count of 0 means one
OrOne(digits) == IF digits = <<>> THEN BigFromInt(1) ELSE DecimalValue(digits)

\* the count is the saturated value of the digits typed
CountIsTyped(s) == s.count = BigMin(DecimalValue(s.typed), U32_MAX)

\* the movement that completed a d ran with the saturated product of the
\* two counts typed
ProductIsSaturated(s) ==
    (s.ran # None /\ s.before.mode = "Delete") =>
        s.ran[1][2] = BigMin(BigMul(OrOne(s.before.typed_op), OrOne(s.before.typed)),
                             U32_MAX)

\* a 0 that arrived while the count was 0 was the movement to the start of
\* the line and left the count at 0
ZeroIsMovement(s, key) ==
    (key = "0" /\ s.before.count = <<>>) =>
        /\ s.ran # None
        /\ s.ran[1][1] = KChar("0")
        /\ s.count = <<>>

\* C24: Vi counts never overflow.  For every sequence of digit keys in
\* Normal or operator-pending mode count is min(decimal value typed,
\* 2^32 - 1), the product of the operator's and the movement's count is
\* saturated likewise, and a 0 typed while count is 0 is the movement to the
\* start of the line and leaves count at 0.
C24_CountSaturates ==
    call.ret.n > 0 =>
        /\ CountIsTyped(call.ret)
        /\ ProductIsSaturated(call.ret)
        /\ ZeroIsMovement(call.ret, Last(call.args))

\* the digit key of a count below 10, none for 0
CountKeysOf(n) == IF n = 0 THEN <<>> ELSE <<KChar(DigitSeq[n + 1])>>

\* the movements the operators are tried with
Movements == {<<KChar("l")>>, <<KChar("h")>>, <<KChar("w")>>, <<KChar("f"), KChar("c")>>}

\* the keymap v1 after `a op b movement` is as after `op n movement`, v2,
\* and its counts are 0; the operation does not complete in v1 (a panic)
\* exactly when it does not in v2
RanWithCount(v1, v2) ==
    /\ v1.ed.panicked = v2.ed.panicked
    /\ ~v1.ed.panicked =>
          /\ cur_buf(v1.ed).data = cur_buf(v2.ed).data
          /\ v1.ed.cursor = v2.ed.cursor
          /\ v1.mode_stack = v2.mode_stack
          /\ v1.count = 0
          /\ v1.secondary_count = 0

CountsMultiply(v, op, a, b, movement) ==
    RanWithCount(
        handle_keys_core(v, CountKeysOf(a) \o <<KChar(op)>> \o CountKeysOf(b) \o movement),
        handle_keys_core(v, <<KChar(op)>> \o CountKeysOf(Max(a, 1) * Max(b, 1))
                                \o movement))

Changes ==
    {<<KChar("x")>>, <<KChar("r"), KChar("c")>>, <<KChar("~")>>, <<KChar("D")>>,
     <<KChar("d"), KChar("l")>>, <<KChar("d"), KChar("f"), KChar("c")>>,
     <<KChar("d"), KChar("F"), KChar("c")>>,
     <<KChar("s"), KChar("a"), KEsc>>, <<KChar("c"), KChar("l"), KChar("a"), KEsc>>,
     <<KChar("i"), KChar("a"), KEsc>>}

\* v2 is the keymap after `.` and v3 the keymap after the keys of the change
\* typed again, both in the keymap v1
SameEdit(v1, v2, v3) ==
    /\ v2.ed.panicked = v3.ed.panicked
    /\ ~v2.ed.panicked =>
          /\ cur_buf(v2.ed).data = cur_buf(v3.ed).data
          /\ v2.ed.cursor = v3.ed.cursor
          /\ v2.last_command = v1.last_command

\* the change was typed with the count n in the keymap v0 and left v1; then
\* `.` is typed with the count m (0 for a count that is not typed)
DotRepeats(v0, v1, change, n, m) ==
    (~v1.ed.panicked /\ Vi_mode(v1) = Normal
        /\ cur_buf(v1.ed).data # cur_buf(v0.ed).data) =>
        SameEdit(v1,
                 handle_keys_core(v1, CountKeysOf(m) \o <<KChar(".")>>),
                 handle_keys_core(v1, CountKeysOf(IF m = 0 THEN n ELSE m) \o change))

\* C26: Vi dot replay.  After a completed change (x, r<c>, ~, D, d with a
\* movement, s or c with a movement and typed text ended by Esc, an insert
\* ended by Esc) `.` in Normal mode applies to the current text and cursor
\* the same edit as typing the keys of the change again with the original
\* count, or with the count typed before `.`, which replaces it; and
\* last_command is the same after `.` as before it.
C26_DotReplay ==
    (sess.phase = "keys" /\ Vi_mode(km) = Normal /\ km.count = 0) =>
        \A change \in Changes, n \in {0, 2}, m \in {0, 3} :
            DotRepeats(km, handle_keys_core(km, CountKeysOf(n) \o change), change, n, m)

\* where the insert command cmd, typed in the Normal-mode keymap v, inserts
InsertPosition(v, cmd) ==
    CASE cmd = "i" -> v.ed.cursor
      [] cmd = "a" -> Min(v.ed.cursor + 1, num_chars(cur_buf(v.ed)))
      [] cmd = "I" -> 0
      [] OTHER -> num_chars(cur_buf(v.ed))

\* text n times in a row
RECURSIVE Times(_, _)
Times(text, n) == IF n = 0 THEN <<>> ELSE text \o Times(text, n - 1)

\* data with text inserted n times in a row at position
InsertedAt(data, position, text, n) ==
    SubSeq(data, 1, position) \o Times(text, n) \o SubSeq(data, position + 1, Len(data))

\* the buffer of the keymap v1 that was the current buffer of the keymap v
BufferOf(v, v1) ==
    IF v.ed.cur_history_loc = None THEN v1.ed.new_buf
    ELSE v1.ed.hist[v.ed.cur_history_loc[1] + 1]

\* the keys of a text
TextKeys(text) == [i \in 1..Len(text) |-> KChar(text[i])]

InsertKeys(cmd, n, text, movement) ==
    CountKeysOf(n) \o <<KChar(cmd)>> \o TextKeys(text) \o movement \o <<KEsc>>

\* the insert command cmd with the count n, the text and Esc, and the same
\* with a movement key before Esc
InsertsTimes(v, cmd, n, text) ==
    /\ \E v1 \in {handle_keys_core(v, InsertKeys(cmd, n, text, <<>>))} :
          /\ ~v1.ed.panicked
          /\ Vi_mode(v1) = Normal
          /\ cur_buf(v1.ed).data
                 = InsertedAt(cur_buf(v.ed).data, InsertPosition(v, cmd), text, n)
    /\ \A mv \in {KLeft, KRight, KUp, KDown, KHome, KEnd} :
          \E v1 \in {handle_keys_core(v, InsertKeys(cmd, n, text, <<mv>>))} :
              /\ ~v1.ed.panicked
              /\ Vi_mode(v1) = Normal
              /\ BufferOf(v, v1).data
                     = InsertedAt(cur_buf(v.ed).data, InsertPosition(v, cmd), text, 1)

\* C27: Vi insert count.  When an insert command (i, a, I, A) is entered in
\* Normal mode with count n >= 1 and text T is typed with no cursor movement
\* before Esc, the buffer then contains T inserted n times in a row at the
\* insert position; a movement key of Insert mode (Left, Right, Up, Down,
\* Home, End) before Esc resets the count, so that T appears once.
C27_InsertCount ==
    (sess.phase = "keys" /\ Vi_mode(km) = Normal /\ km.count = 0) =>
        \A cmd \in {"i", "a", "I", "A"}, n \in 1..3, text \in {<<"a">>, <<"a", "b">>} :
            InsertsTimes(km, cmd, n, text)

\* in the middle of a text, 3 a with the text ab inserts ababab behind the
\* cursor
C27_Witness ==
    /\ sess.phase = "keys"
    /\ Vi_mode(km) = Normal
    /\ km.count = 0
    /\ km.ed.cursor = 1
    /\ cur_buf(km.ed).data = <<"a", " ", "B", "c">>
    /\ cur_buf(handle_keys_core(km, InsertKeys("a", 3, <<"a", "b">>, <<>>)).ed).data
           = <<"a", " ", "a", "b", "a", "b", "a", "b", "B", "c">>

\* the actions are one undo group: StartGroup, mutations, EndGroup
IsOneGroup(acts) ==
    /\ Len(acts) >= 2
    /\ Head(acts) = StartGroup
    /\ Last(acts) = EndGroup
    /\ \A i \in 2..(Len(acts) - 1) : ~IsMarker(acts[i])

\* r with the count n (0 for a count that is not typed) and the char c,
\* typed in the Normal-mode keymap v
Replaces(v, v1, n, c) ==
    LET b == cur_buf(v.ed)
        b1 == cur_buf(v1.ed)
        k == Max(n, 1)
    IN  /\ ~v1.ed.panicked
        /\ Vi_mode(v1) = Normal
        /\ v1.count = 0
        /\ IF num_chars(b) - v.ed.cursor < k
           THEN /\ b1 = b
                /\ v1.ed.cursor = v.ed.cursor
           ELSE /\ b1.data = SubSeq(b.data, 1, v.ed.cursor) \o Times(<<c>>, k)
                                 \o SubSeq(b.data, v.ed.cursor + k + 1, Len(b.data))
                /\ v1.ed.cursor = v.ed.cursor + k - 1
                /\ IsPrefix(b.actions, b1.actions)
                /\ IsOneGroup(SubSeq(b1.actions, Len(b.actions) + 1, Len(b1.actions)))

\* C28: Vi r<c> with count n.  If fewer than n chars remain from the cursor
\* to the end of the buffer the command aborts with the text and the cursor
\* unchanged; otherwise exactly the n chars from the cursor on are replaced
\* by c, the cursor ends on the last replaced char and the replacement is
\* one undo group; in both cases the keymap is back in Normal mode with
\* count 0.
C28_ReplaceCount ==
    (sess.phase = "keys" /\ Vi_mode(km) = Normal /\ km.count = 0) =>
        \A n \in 0..3, c \in {"c", "2"} :
            Replaces(km, handle_keys_core(km, CountKeysOf(n) \o <<KChar("r"), KChar(c)>>),
                     n, c)

\* 2 r was typed on the third of four chars: the char c replaces the last
\* two chars, and with the count 3 it replaces nothing
C28_Witness ==
    /\ sess.phase = "keys"
    /\ Vi_mode(km).m = "Replace"
    /\ km.count = 2
    /\ km.ed.cursor = 2
    /\ cur_buf(km.ed).data = <<"a", " ", "B", "c">>
    /\ cur_buf(handle_keys_core(km, <<KChar("c")>>).ed).data = <<"a", " ", "c", "c">>
    /\ cur_buf(handle_keys_core([km EXCEPT !.count = 3], <<KChar("c")>>).ed).data
           = cur_buf(km.ed).data

(***************************************************************************)
(* Claims about the last-argument recall of the Emacs keymap.              *)
(***************************************************************************)
\* the last argument of history entry i (counted from 0), <<>> without one
ArgOf(ed, i) ==
    LET la == last_arg(ed.hist[i + 1]) IN IF la = None THEN <<>> ELSE la[1]

\* the history index the first Alt-. of a run fetches from
FirstFetch(ed) ==
    IF ed.cur_history_loc # None THEN ed.cur_history_loc[1] ELSE Len(ed.hist) - 1

RECURSIVE Recalls(_, _)
\* the keymap k after n Alt-. keys in a row through handle_key
Recalls(k, n) ==
    IF n = 0 THEN k ELSE handle_key(Recalls(k, n - 1), KAlt(".")).km

\* after n Alt-. keys typed in the keymap k0, which holds no recall, the
\* buffer is that of k0 with the last argument of the entry n - 1 older than
\* the first one fetched (entry 0 at the oldest) inserted at the cursor of k0
RecalledIn(k0, n) ==
    LET i == Max(FirstFetch(k0.ed) - (n - 1), 0)
        k == Recalls(k0, n)
        data == cur_buf(k0.ed).data
        c == k0.ed.cursor
    IN  /\ ~k.ed.panicked
        /\ k.last_arg_fetch_index = Some(i)
        /\ cur_buf(k.ed).data =
              SubSeq(data, 1, c) \o ArgOf(k0.ed, i) \o SubSeq(data, c + 1, Len(data))
        /\ k.ed.cursor = c + Len(ArgOf(k0.ed, i))

\* C29: on the second and each later Alt-. in a row exactly the text the
\* Alt-. before inserted is removed, the text typed before and after it
\* stays, and the last argument of the next-older history entry is inserted
\* in its place; once history index 0 was fetched more presses change nothing.
C29_RecallReplaces ==
    /\ sess.phase = "keys"
    /\ km.kind = "Emacs"
    /\ ~km.ed.panicked
    /\ km.last_arg_fetch_index = None
    /\ Len(km.ed.hist) > 0
    => \A n \in 1..3 : RecalledIn(km, n)


\* handle_key returned r, not the end of the line, for a key other than
\* Alt-.: the recall is forgotten, and one more Alt-. fetches as a first one
LatchCleared(r) ==
    r.err = "" /\ ~r.done /\ ~r.km.ed.panicked =>
        /\ r.km.last_arg_fetch_index = None
        /\ RecalledIn(r.km, 1)

\* C30: any key other than Alt-. handled between two Alt-. keys, Tab and the
\* other keys the dispatcher serves without handle_key_core included, clears
\* last_arg_fetch_index, so that the next Alt-. starts again from the most
\* recent history entry and removes nothing.
C30_LatchCleared ==
    /\ sess.phase = "keys"
    /\ km.kind = "Emacs"
    /\ ~km.ed.panicked
    /\ km.last_arg_fetch_index # None
    => \A key \in Keys \ {KAlt(".")} : LatchCleared(handle_key(km, key))

(***************************************************************************)
(* Claims about the painting.                                              *)
(***************************************************************************)
\* where the terminal leaves its cursor after the steps written by the call
PaintedCursor ==
    term_position(term_run(Term(call.args[3] - 1, 0, FALSE), call.ret.out,
                           call.args[4], call.args[6]))

\* where the char at the cursor of the editor ed is on a terminal of w columns
\* that shows the prompt and the buffer from the row of the prompt on, the
\* lines after the first one moved right by the width of the prompt
LogicalCursor(ed, prompt_width, w, zero) ==
    term_position(
        term_run(Term(0, 0, FALSE),
                 <<TText(prompt_width)>>
                     \o paint_lines(Buffer_lines(SubSeq(cur_buf(ed).data, 1, ed.cursor)),
                                    prompt_width, 1),
                 w, zero))

\* C31: after every repaint, display and the repaint _display(false) of the
\* commit alike, with or without an autosuggestion, the position of the
\* terminal cursor that the text and the cursor motions written imply is
\* the position of the logical cursor within prompt + buffer, for a
\* terminal of width w.
C31_CursorPlaced ==
    call.fn = "display" =>
        /\ ~call.ret.ed.panicked
        /\ PaintedCursor = LogicalCursor(call.ret.ed, call.args[2], call.args[4],
                                         call.args[6])

(***************************************************************************)
(* Claims about the word divider.                                          *)
(***************************************************************************)
\* the char at offset k of data belongs to a word: it is no space, or it is
\* a space that follows a backslash
InAWord(data, k) ==
    data[k + 1] # " " \/ (k > 0 /\ data[k] = "\\")

\* the maximal runs of chars that belong to a word, as pairs <<start, end>>
MaximalRuns(data) ==
    {r \in (0..Len(data)) \X (0..Len(data)) :
        /\ r[1] < r[2]
        /\ \A k \in r[1]..(r[2] - 1) : InAWord(data, k)
        /\ r[1] = 0 \/ ~InAWord(data, r[1] - 1)
        /\ r[2] = Len(data) \/ ~InAWord(data, r[2])}

\* the ranges are ordered, apart from each other and within the text
WellFormedRanges(words, len) ==
    /\ \A i \in 1..Len(words) : words[i][1] < words[i][2] /\ words[i][2] <= len
    /\ \A i \in 1..(Len(words) - 1) : words[i][2] <= words[i + 1][1]

\* C32: for every buffer get_buffer_words returns ranges (start, end) that
\* are ordered, do not overlap, satisfy start < end <= len, and are exactly
\* the maximal runs of non-space chars, a space after a backslash counting
\* as part of the word, the backslash itself included.
C32_WordRanges ==
    call.fn = "get_buffer_words" =>
        /\ WellFormedRanges(call.ret, Len(call.args[1]))
        /\ Range(call.ret) = MaximalRuns(call.args[1])

\* the keys of the changes that enter Insert mode, with one typed char
InsertChanges ==
    {<<KChar("i"), KChar("a"), KEsc>>, <<KChar("a"), KChar("a"), KEsc>>,
     <<KChar("I"), KChar("a"), KEsc>>, <<KChar("A"), KChar("a"), KEsc>>,
     <<KChar("s"), KChar("a"), KEsc>>,
     <<KChar("c"), KChar("l"), KChar("a"), KEsc>>,
     <<KChar("c"), KChar("c"), KChar("a"), KEsc>>,
     <<KChar("C"), KChar("a"), KEsc>>, <<KChar("C"), KEsc>>}

\* `.` typed in the keymap v1, which a change has left in Normal mode, ends
\* in Normal mode: the mode stack is empty and x is the command x
DotEndsNormal(v1) ==
    (~v1.ed.panicked /\ Vi_mode(v1) = Normal) =>
        LET v2 == handle_keys_core(v1, <<KChar(".")>>)
        IN  ~v2.ed.panicked =>
                /\ v2.mode_stack = <<>>
                /\ handle_keys_core(v2, <<KChar("x")>>) = handle_key_normal(v2, KChar("x"))

\* C33: whenever the change replayed by `.` enters Insert mode, changes
\* recorded with last_insert = None such as C followed by typed text
\* included, the replay finishes with Esc: after `.` the mode stack is empty
\* and the next key is interpreted as a Normal-mode command.
C33_DotEndsNormal ==
    (sess.phase = "keys" /\ Vi_mode(km) = Normal /\ km.count = 0) =>
        \A change \in InsertChanges : DotEndsNormal(handle_keys_core(km, change))

\* the char searches for z, a char that no text holds: f, F, t and T, and
\* `;` and `,` after one of them
SearchesForNothing ==
    LET first == {<<KChar(c), KChar("z")>> : c \in {"f", "F", "t", "T"}}
    IN  first \cup {s \o <<KChar(r)>> : s \in first, r \in {";", ","}}

\* the search typed in the keymap v, after the keys before, left the text and
\* the cursor alone and ended in the mode of v
SearchDoesNothing(v, before, search) ==
    LET v0 == handle_keys_core(v, before)
        v1 == handle_keys_core(v0, search)
    IN  /\ v1.ed.panicked = v0.ed.panicked
        /\ ~v1.ed.panicked =>
              /\ cur_buf(v1.ed).data = cur_buf(v.ed).data
              /\ v1.ed.cursor = v.ed.cursor
              /\ v1.mode_stack = v.mode_stack

\* C34: for f, F, t, T (and ; / ,) whose target char does not occur in the
\* searched direction, the buffer text and the cursor are unchanged and the
\* keymap returns to the mode it was in before the command, as a plain
\* Normal-mode motion and as the motion of a pending d or c alike.
C34_SearchFindsNothing ==
    (sess.phase = "keys" /\ Vi_mode(km) = Normal /\ km.count = 0) =>
        \A search \in SearchesForNothing :
            /\ SearchDoesNothing(km, <<>>, search)
            /\ SearchDoesNothing(km, <<KChar("d")>>, <<Head(search)>> \o <<KChar("z")>>)
            /\ SearchDoesNothing(km, <<KChar("c")>>, <<Head(search)>> \o <<KChar("z")>>)
            /\ SearchDoesNothing(km, SubSeq(search, 1, 2) \o <<KChar("d")>>,
                                 SubSeq(search, 3, Len(search)))

\* the key, typed with the count n in the keymap v, aborts to Normal mode
AbortsToNormal(v, n, key) ==
    LET v1 == handle_keys_core(v, CountKeysOf(n) \o <<key>>)
    IN  /\ ~v1.ed.panicked
        /\ cur_buf(v1.ed) = cur_buf(v.ed)
        /\ v1.ed.cursor = v.ed.cursor
        /\ v1.last_char_movement = v.last_char_movement
        /\ v1.count = 0
        /\ Vi_mode(v1) = Normal

\* C35: `;` or `,` pressed when no char search has been recorded
\* (last_char_movement is None) aborts to Normal mode: buffer, cursor and
\* last_char_movement are unchanged, count is reset to 0, and no
\* unreachable!() branch is executed.
C35_RepeatWithoutSearch ==
    (sess.phase = "keys" /\ Vi_mode(km) = Normal /\ km.count = 0
        /\ km.last_char_movement = None) =>
        \A key \in {KChar(";"), KChar(",")}, n \in {0, 2} : AbortsToNormal(km, n, key)

\* the texts of the fresh buffer and of the history entries
AllTexts(v) == <<v.ed.new_buf.data, Texts(v.ed.hist)>>

InsertMovements == {KLeft, KRight, KHome, KEnd, KUp, KDown}

\* in the keymap v the keys enter begin an insert session; t1 is typed, the
\* movement key mv pressed, t2 typed, and Esc ends the session: one u undoes
\* t2 and a second u undoes t1
UndoesInChunks(v, enter, t1, mv, t2) ==
    LET a == handle_keys_core(v, enter)
        b == handle_keys_core(a, TextKeys(t1))
        u1 == handle_keys_core(b, <<mv>> \o TextKeys(t2) \o <<KEsc, KChar("u")>>)
        u2 == handle_keys_core(u1, <<KChar("u")>>)
    IN  /\ ~u2.ed.panicked
        /\ AllTexts(u1) = AllTexts(b)
        /\ AllTexts(u2) = AllTexts(a)

\* C36 as stated: when, within one insert session, text T1 is typed, then a movement
\* key (Left, Right, Home, End, Up or Down) is pressed, then text T2 is
\* typed and Esc ends the session, a single u removes exactly T2 and a
\* second u removes exactly T1.
C36_MovementResetOriginal ==
    sess.phase = "keys" =>
        \A t1 \in {<<"x">>, <<"x", "y">>}, t2 \in {<<"z">>, <<"z", "w">>},
           mv \in InsertMovements :
            /\ (Vi_mode(km) = Normal /\ km.count = 0) =>
                   \A enter \in {<<KChar("i")>>, <<KChar("a")>>} :
                       UndoesInChunks(km, enter, t1, mv, t2)
            /\ sess.n = 0 => UndoesInChunks(km, <<>>, t1, mv, t2)

\* as UndoesInChunks, the second u undoing t1 when the movement key left the
\* current buffer the current one; when it selected another buffer, t1 stays
\* in the buffer it was typed in
UndoesInBuffer(v, enter, t1, mv, t2) ==
    LET a == handle_keys_core(v, enter)
        b == handle_keys_core(a, TextKeys(t1))
        m == handle_keys_core(b, <<mv>>)
        u1 == handle_keys_core(m, TextKeys(t2) \o <<KEsc, KChar("u")>>)
        u2 == handle_keys_core(u1, <<KChar("u")>>)
    IN  /\ ~u2.ed.panicked
        /\ AllTexts(u1) = AllTexts(b)
        /\ IF m.ed.cur_history_loc = a.ed.cur_history_loc
           THEN AllTexts(u2) = AllTexts(a)
           ELSE BufferOf(a, u2).data = BufferOf(a, b).data

\* C36: when, within one insert session, text T1 is typed, then a movement
\* key (Left, Right, Home, End, Up or Down) is pressed, then text T2 is
\* typed and Esc ends the session, a single u removes exactly T2; a second
\* u removes exactly T1 when the movement key did not select another
\* buffer, and leaves T1 in the buffer it was typed in when Up or Down
\* selected another one.
C36_MovementReset ==
    sess.phase = "keys" =>
        \A t1 \in {<<"x">>, <<"x", "y">>}, t2 \in {<<"z">>, <<"z", "w">>},
           mv \in InsertMovements :
            /\ (Vi_mode(km) = Normal /\ km.count = 0) =>
                   \A enter \in {<<KChar("i")>>, <<KChar("a")>>} :
                       UndoesInBuffer(km, enter, t1, mv, t2)
            /\ sess.n = 0 => UndoesInBuffer(km, <<>>, t1, mv, t2)

\* x was typed, Left pressed, x typed and Esc ended the session that the
\* keymap began in: the journal holds two groups, the first u leaves the
\* first x and the second u nothing
C36_Witness ==
    /\ sess.phase = "keys"
    /\ sess.n = 4
    /\ Vi_mode(km) = Normal
    /\ km.ed.cur_history_loc = None
    /\ km.ed.new_buf.data = <<"x", "x">>
    /\ km.ed.new_buf.actions =
          <<StartGroup, Insert(0, <<"x">>), EndGroup, StartGroup, Insert(0, <<"x">>),
            EndGroup>>
    /\ cur_buf(handle_keys_core(km, <<KChar("u")>>).ed).data = <<"x">>
    /\ cur_buf(handle_keys_core(km, <<KChar("u"), KChar("u")>>).ed).data = <<>>

(***************************************************************************)
(* Claims about the history selector.                                      *)
(***************************************************************************)
RECURSIVE Ups(_, _)
\* move_up called k times
Ups(ed, k) == IF k = 0 THEN ed ELSE Ups(move_up(ed), k - 1)

RECURSIVE Downs(_, _)
\* move_down called k times
Downs(ed, k) == IF k = 0 THEN ed ELSE Downs(move_down(ed), k - 1)

\* cur_history_loc is None or an index into the history
SelectorInRange(ed) ==
    ed.cur_history_loc = None \/ ed.cur_history_loc[1] \in 0..(Len(ed.hist) - 1)

\* where one call of each of the four methods takes the selector of ed
SelectorSteps(ed) ==
    LET len == Len(ed.hist)
        loc == ed.cur_history_loc
    IN  /\ move_up(ed).cur_history_loc =
              IF loc = None THEN (IF len > 0 THEN Some(len - 1) ELSE None)
              ELSE IF loc[1] > 0 THEN Some(loc[1] - 1) ELSE Some(0)
        /\ move_down(ed).cur_history_loc =
              IF loc = None THEN None
              ELSE IF loc[1] = len - 1 THEN None ELSE Some(loc[1] + 1)
        /\ move_to_start_of_history(ed).cur_history_loc =
              IF len > 0 THEN Some(0) ELSE None
        /\ move_to_end_of_history(ed).cur_history_loc = None

\* from the fresh buffer k ups and k downs lead back to it, and no text has
\* changed
UpsThenDowns(ed) ==
    ed.cur_history_loc = None =>
        \A k \in 0..Len(ed.hist) :
            LET r == Downs(Ups(ed, k), k)
            IN  /\ r.cur_history_loc = None
                /\ r.new_buf = ed.new_buf
                /\ r.hist = ed.hist
                /\ k > 0 => Ups(ed, k).cur_history_loc = Some(Len(ed.hist) - k)

\* C37: cur_history_loc is always None (the fresh buffer) or an index below
\* history.len(); from None, up selects len-1 when the history is not empty
\* and stays otherwise; each further up decrements and stays at 0; down
\* increments and from len-1 returns to None; down at None stays; hence k
\* ups followed by k downs (k <= len) return to the fresh buffer, whose
\* text is unchanged.
C37_HistorySelector ==
    (sess.phase = "keys" /\ ~km.ed.panicked) =>
        /\ SelectorInRange(km.ed)
        /\ SelectorSteps(km.ed)
        /\ UpsThenDowns(km.ed)

\* two ups from the fresh buffer, in which text was typed, have selected
\* the oldest of two history entries; two downs lead back
C37_Witness ==
    /\ sess.phase = "keys"
    /\ ~km.ed.panicked
    /\ Len(km.ed.hist) = 2
    /\ km.ed.cur_history_loc = Some(0)
    /\ km.ed.new_buf.data # <<>>
    /\ km.ed.new_buf.actions # <<>>
    /\ move_up(km.ed).cur_history_loc = Some(0)
    /\ Downs(km.ed, 2).cur_history_loc = None

(***************************************************************************)
(* Claims about whole sessions.                                            *)
(***************************************************************************)
\* C38: for every key sequence fed to the keymap from any initial buffer,
\* the empty one included, and any history, every Buffer insert / remove
\* issued satisfies 0 <= start <= end <= len (delete_until_inclusive is
\* only reached with max(cursor, position) < len): no key sequence makes
\* the editor panic.
C38_NoPanic == sess.phase # "panicked" /\ ~km.ed.panicked

\* the keys of changes of Normal mode, each one change for u
UndoneChanges ==
    {<<KChar("x")>>, <<KChar("r"), KChar("c")>>, <<KChar("~")>>,
     <<KChar("d"), KChar("l")>>, <<KChar("i"), KChar("a"), KEsc>>}

\* an operator that is begun and aborted
AbortedOperators == {<<>>, <<KChar("d"), KEsc>>, <<KChar("c"), KEsc>>}

\* the text of the current buffer after the keys are typed in the keymap v
TextAfter(v, keys) == cur_buf(handle_keys_core(v, keys).ed).data

\* in the keymap v the change ch1, the keys between and the change ch2 are
\* typed, and each change changes the text: u and Ctrl-R with and without
\* the count 2 step through the three texts
StepsThroughChanges(v, ch1, between, ch2) ==
    LET v1 == handle_keys_core(v, ch1)
        v2 == handle_keys_core(v1, between \o ch2)
        t0 == cur_buf(v.ed).data
        t1 == cur_buf(v1.ed).data
        t2 == cur_buf(v2.ed).data
    IN  (~v2.ed.panicked /\ Vi_mode(v1) = Normal /\ Vi_mode(v2) = Normal
            /\ t0 # t1 /\ t1 # t2) =>
            /\ TextAfter(v2, <<KChar("u")>>) = t1
            /\ TextAfter(v2, <<KChar("2"), KChar("u")>>) = t0
            /\ TextAfter(v2, <<KChar("u"), KCtrl("r")>>) = t2
            /\ TextAfter(v2, <<KChar("2"), KChar("u"), KCtrl("r")>>) = t1
            /\ TextAfter(v2, <<KChar("2"), KChar("u"), KChar("2"), KCtrl("r")>>) = t2

\* C39: in Normal mode u with the count n undoes exactly the n most recent
\* changes (each insert session and each Normal-mode command such as x, r,
\* ~, d with a movement being one change) and nothing older, for every
\* key sequence before, aborted operators (d Esc, c Esc) included; Ctrl-R
\* with the count n applies exactly n of them again.
C39_UndoGranularity ==
    (sess.phase = "keys" /\ Vi_mode(km) = Normal /\ km.count = 0) =>
        \A ch1 \in UndoneChanges, ch2 \in UndoneChanges, between \in AbortedOperators :
            StepsThroughChanges(km, ch1, between, ch2)

\* a later session on the history h: Vi, Esc, Up to the entry that is k
\* entries from the newest, Ctrl-R
RedoInLaterSession(h, k) ==
    handle_keys_core(Vi_new(Editor_new_with_init_buffer(h, Completer, Buffer_from(<<>>))),
                     <<KEsc>> \o [j \in 1..k |-> KUp] \o <<KCtrl("r")>>).ed

\* both stacks of every entry are empty
StacksEmpty(h) ==
    \A i \in 1..Len(h) : h[i].actions = <<>> /\ h[i].undone_actions = <<>>

\* read_line returned and left the undo stack of every entry empty
UndoStacksEmpty ==
    sess.phase = "returned" =>
        \A i \in 1..Len(sess.after) : sess.after[i].actions = <<>>

\* C40: no edit leaks across sessions: after read_line returned, every
\* history entry has an empty undo stack and an empty redo stack, so in a
\* later session a redo (Vi Ctrl-R) on a history entry that was not edited in
\* that session changes nothing.
C40_NoLeakAcrossSessions ==
    sess.phase = "returned" =>
        /\ StacksEmpty(sess.after)
        /\ \A k \in 1..Len(sess.after) :
              Texts(RedoInLaterSession(sess.after, k).hist) = Texts(sess.after)

=============================================================================
